---- MODULE Spec2Model ----
(***************************************************************************)
(* A model of the Bronze -> Silver -> Gold pipeline of iim-big-data.       *)
(*                                                                         *)
(* Tables (pandas DataFrames) are sequences of records, one record per     *)
(* row, in row order.  A numeric cell holds an integer, NULL (NaN / NaT)   *)
(* or BAD (a text that does not parse as a number).  A column that holds   *)
(* a BAD cell is read by read_csv as an object column of texts and stays   *)
(* one when astype() fails in normalize_data_types, so a table carries the *)
(* set "obj" of its columns that are object columns.  Text cells hold a    *)
(* string or NA.  Timestamps are integers; Now is the run time.            *)
(* Quotients the code computes in floating point are kept exact, as a      *)
(* numerator and a denominator.                                            *)
(***************************************************************************)
EXTENDS Integers, Sequences, FiniteSets, TLC

VARIABLES
    achats_raw,        \* clean_achats_data: argument df
    valid_client_ids,  \* clean_achats_data: argument valid_client_ids
    achats_out,        \* clean_achats_data: outcome
    clients_out,       \* clean_clients_data: outcome
    clients_raw,       \* Bronze: the content of clients.csv
    csv_files,         \* silver_transformation_flow: result of discover_bronze_files
    file_idx,          \* silver_transformation_flow: position of the for loop
    summary,           \* silver_transformation_flow: summary[dataset]["status"]
    silver,            \* Silver bucket: the parquet object of each dataset
    score_triple,      \* assign_segment: the row's (R_score, F_score, M_score)
    values,            \* calculate_gini: the array of values it is given
    fact,              \* Gold: the table handed to an aggregator or to the enrichment
    reference_date,    \* Gold: the reference_date argument
    result,            \* Gold: what the aggregator returned
    clock,             \* the wall clock, what pd.Timestamp.now() returns
    run_outputs,       \* the output tables of the completed pipeline runs
    gold,              \* Gold bucket: the rows of each parquet object
    gold_runs,         \* number of gold_aggregation_flow runs so far
    mongo,             \* MongoDB: the documents of each collection
    metadata_refresh,  \* MongoDB: the collection metadata_refresh
    sync,              \* run_mongo_sync: position and locals of the running sync
    mongo_before,      \* history: the collections as they were when the sync started
    api_response,      \* API: the last response of a read endpoint
    gold_flow,         \* gold_aggregation_flow: position of the running flow
    gold_before,       \* history: the Gold bucket as it was when the sync started
    achats_arg,        \* create_fact_achats: argument achats_df
    clients_arg,       \* create_fact_achats: argument clients_df
    phase              \* position of the run under study

goldVars == <<score_triple, values, fact, reference_date, result>>
cleanVars == <<achats_raw, valid_client_ids, achats_out, clients_out>>
silverVars == <<clients_raw, csv_files, file_idx, summary, silver>>
runVars == <<clock, run_outputs>>
mongoVars == <<gold, gold_runs, mongo, metadata_refresh, sync, mongo_before, api_response,
               gold_flow, gold_before>>
factVars == <<achats_arg, clients_arg>>
vars == <<cleanVars, silverVars, goldVars, runVars, mongoVars, factVars, phase>>

\* ---------------------------------------------------------------- cells
NULL == -1
BAD == -2
NA == "<NA>"

\* The run time: pd.Timestamp.now() reads the wall clock at each call.
Now == clock

\* No pipeline run under study: the clock stands at the run time.
IdleRun ==
    /\ clock = 10
    /\ run_outputs = <<>>

\* No synchronisation to MongoDB under study.
IdleMongo ==
    /\ gold = <<>>
    /\ gold_runs = 0
    /\ mongo = <<>>
    /\ metadata_refresh = <<>>
    /\ sync = <<>>
    /\ mongo_before = <<>>
    /\ api_response = <<>>
    /\ gold_flow = <<>>
    /\ gold_before = <<>>

\* No call of create_fact_achats under study.
IdleFact ==
    /\ achats_arg = <<>>
    /\ clients_arg = <<>>

\* Largest number of rows of a raw table.
MaxRows == 2

RECURSIVE SeqSum(_)
SeqSum(s) == IF s = <<>> THEN 0 ELSE Head(s) + SeqSum(Tail(s))

\* ------------------------------------------------------------- cleaning
\* A DataFrame under cleaning: rows, and the columns left as object dtype.
Frame(rows, obj) == [rows |-> rows, obj |-> obj]

AchatsNumericCols == {"id_achat", "id_client", "montant"}

\* normalize_data_types with the purchases schema: a timestamp that does
\* not parse becomes NaT; a numeric column with an unparseable cell makes
\* astype raise, the exception is swallowed and the whole column is left
\* as it was read.
normalize_data_types(rows) ==
    Frame([i \in 1..Len(rows) |->
              [rows[i] EXCEPT !.date_achat = IF @ = BAD THEN NULL ELSE @]],
          {c \in AchatsNumericCols : \E i \in 1..Len(rows) : rows[i][c] = BAD})

remove_duplicates_keep_last(df, col) ==
    [df EXCEPT !.rows =
        LET r == df.rows
            idx == {i \in 1..Len(r) : \A j \in (i+1)..Len(r) : r[j][col] # r[i][col]}
            RECURSIVE Pick(_)
            Pick(i) == IF i > Len(r) THEN <<>>
                       ELSE IF i \in idx THEN <<r[i]>> \o Pick(i+1) ELSE Pick(i+1)
        IN Pick(1)]

\* remove_duplicates(subset=[col], keep="first")
remove_duplicates(df, col) ==
    [df EXCEPT !.rows =
        LET r == df.rows
            idx == {i \in 1..Len(r) : \A j \in 1..(i-1) : r[j][col] # r[i][col]}
            RECURSIVE Pick(_)
            Pick(i) == IF i > Len(r) THEN <<>>
                       ELSE IF i \in idx THEN <<r[i]>> \o Pick(i+1) ELSE Pick(i+1)
        IN Pick(1)]

standardize_dates_strict(df, col) ==
    [df EXCEPT !.rows =
        LET Keep(r) == r[col] # NULL /\ r[col] # BAD /\ r[col] < Now
        IN SelectSeq(df.rows, Keep)]

\* standardize_dates: to_datetime(errors='coerce'), then keep col <= now
\* (a comparison with NaT is False).
standardize_dates(df, col) ==
    [df EXCEPT !.rows =
        LET Keep(r) == r[col] # NULL /\ r[col] # BAD /\ r[col] <= Now
        IN SelectSeq(df.rows, Keep)]

\* handle_missing_values(strategy="drop", columns=cols)
handle_missing_drop(df, cols) ==
    [df EXCEPT !.rows =
        LET Keep(r) == \A c \in cols : r[c] # NULL
        IN SelectSeq(df.rows, Keep)]

\* handle_missing_values(strategy="fill", columns=[col], fill_value="UNKNOWN")
handle_missing_fill(df, col) ==
    [df EXCEPT !.rows =
        [i \in 1..Len(df.rows) |->
            [df.rows[i] EXCEPT ![col] = IF @ = NA THEN "UNKNOWN" ELSE @]]]

\* Step 5 of clean_achats_data: the mask (montant > 0) & (montant <= 10000).
\* Comparing an object column of texts with a number raises TypeError,
\* unless the column is empty.
MontantMaskRaises(df) == "montant" \in df.obj /\ df.rows # <<>>

montant_filter_lax(df) ==
    [df EXCEPT !.rows =
        LET Keep(r) == r.montant >= 0 /\ r.montant <= 10000
        IN SelectSeq(df.rows, Keep)]

montant_filter(df) ==
    [df EXCEPT !.rows =
        LET Keep(r) == r.montant > 0 /\ r.montant <= 10000
        IN SelectSeq(df.rows, Keep)]

\* Series.isin(valid_client_ids): a text never equals a number.
IsIn(df, r, ids) == "id_client" \notin df.obj /\ r.id_client \in ids

\* Step 6 of clean_achats_data, skipped when valid_client_ids is None.
referential_filter_all(df, valid) == df

referential_filter(df, valid) ==
    IF ~valid.given THEN df
    ELSE [df EXCEPT !.rows =
             LET Keep(r) == IsIn(df, r, valid.ids)
             IN SelectSeq(df.rows, Keep)]

\* clean_achats_data up to and including step 4.
achats_before_bounds(rows) ==
    handle_missing_drop(
        standardize_dates(
            remove_duplicates(normalize_data_types(rows), "id_achat"),
            "date_achat"),
        {"id_client", "date_achat", "montant"})

\* clean_achats_data up to and including step 5 (when step 5 does not raise).
achats_before_ri(rows) == montant_filter(achats_before_bounds(rows))

clean_achats_data(rows, valid) ==
    LET d4 == achats_before_bounds(rows)
    IN IF MontantMaskRaises(d4)
       THEN [status |-> "raised", df |-> Frame(<<>>, {})]
       ELSE [status |-> "ok",
             df |-> handle_missing_fill(
                        referential_filter(montant_filter(d4), valid),
                        "produit")]

\* clean_clients_data.  Text columns: nom, email, pays; HasAt(e) is
\* email.str.contains("@", na=False).
EmailsWithAt ==
    <<"a@x", "b@x", "c@x", "d@x", "e@x", "f@x", "g@x", "h@x", "i@x", "j@x">>

HasAt(e) == \E k \in 1..Len(EmailsWithAt) : EmailsWithAt[k] = e

normalize_clients_types(rows) ==
    Frame([i \in 1..Len(rows) |->
              [rows[i] EXCEPT !.date_inscription = IF @ = BAD THEN NULL ELSE @]],
          {c \in {"id_client"} : \E i \in 1..Len(rows) : rows[i][c] = BAD})

email_filter(df) ==
    [df EXCEPT !.rows = LET Keep(r) == HasAt(r.email) IN SelectSeq(df.rows, Keep)]

handle_missing_drop_text(df, cols) ==
    [df EXCEPT !.rows =
        LET Keep(r) == \A c \in cols : r[c] # NA
        IN SelectSeq(df.rows, Keep)]

clean_clients_data(rows) ==
    email_filter(
        handle_missing_fill(
            handle_missing_drop_text(
                standardize_dates(
                    remove_duplicates(
                        remove_duplicates(normalize_clients_types(rows), "id_client"),
                        "email"),
                    "date_inscription"),
                {"nom", "email"}),
            "pays"))

\* ----------------------------------------------------------- Gold: time
\* Timestamps of the Gold layer count half days from 2023-01-01 00:00.
TicksPerDay == 2

\* Timedelta.days: whole days, rounded down.
Days(delta) == delta \div TicksPerDay

\* ------------------------------------------------------- Gold: group-by
\* The keys of a groupby(col), in the sorted order groupby returns them.
RECURSIVE SortedSeq(_)
SortedSeq(S) ==
    IF S = {} THEN <<>>
    ELSE LET m == CHOOSE x \in S : \A y \in S : x <= y
         IN <<m>> \o SortedSeq(S \ {m})

Column(rows, col) == [i \in 1..Len(rows) |-> rows[i][col]]
KeysOf(rows, col) == {rows[i][col] : i \in 1..Len(rows)}
Group(rows, col, k) == LET Keep(r) == r[col] = k IN SelectSeq(rows, Keep)

\* The text values of the model in the order of Python strings, the order
\* in which groupby returns text keys.
Alphabet ==
    <<"A", "Actif", "At Risk", "B", "Champions", "Churn", "DE", "FR",
      "Hibernating", "Inactif", "Lost", "Loyal", "Mono-produit",
      "Multi-produits", "Need Attention", "New Customers",
      "Potential Loyalist", "À risque">>

AlphaRank(x) == CHOOSE i \in 1..Len(Alphabet) : Alphabet[i] = x

RECURSIVE SortText(_)
SortText(S) ==
    IF S = {} THEN <<>>
    ELSE LET m == CHOOSE x \in S : \A y \in S : AlphaRank(x) <= AlphaRank(y)
         IN <<m>> \o SortText(S \ {m})

RECURSIVE SeqMax(_)
SeqMax(s) == IF Len(s) = 1 THEN s[1]
             ELSE LET m == SeqMax(Tail(s)) IN IF s[1] >= m THEN s[1] ELSE m

RECURSIVE SeqMin(_)
SeqMin(s) == IF Len(s) = 1 THEN s[1]
             ELSE LET m == SeqMin(Tail(s)) IN IF s[1] <= m THEN s[1] ELSE m

\* np.sort / sort_values(ascending=True) of a sequence of integers.
RECURSIVE SortAsc(_)
SortAsc(s) ==
    IF s = <<>> THEN <<>>
    ELSE LET i == CHOOSE k \in 1..Len(s) : \A j \in 1..Len(s) : s[k] <= s[j]
         IN <<s[i]>> \o SortAsc([j \in 1..(Len(s) - 1) |-> IF j < i THEN s[j] ELSE s[j + 1]])

\* ------------------------------------------------------------ Gold: RFM
\* The six quantile edges of pd.qcut(x, q=5), each multiplied by 5: the
\* k-th edge sits at position (n-1)*k/5 of the sorted values, interpolated
\* linearly between its two neighbours.
QcutEdges5(x) ==
    LET v == SortAsc(x)
        n == Len(v)
    IN [k \in 0..5 |->
           LET pos == (n - 1) * k
               i == pos \div 5
               r == pos % 5
           IN IF r = 0 THEN 5 * v[i + 1]
              ELSE 5 * v[i + 1] + r * (v[i + 2] - v[i + 1])]

\* pd.qcut(..., duplicates='drop') with 5 labels raises ValueError when two
\* edges coincide (the labels no longer fit the bins), and on an empty
\* column.
QcutRaises(x) ==
    \/ x = <<>>
    \/ \E j, k \in 0..5 : j # k /\ QcutEdges5(x)[j] = QcutEdges5(x)[k]

\* The bin (1..5) of value a under right-closed bins with include_lowest;
\* 0 stands for "outside every bin" (NaN).
BinOf(edges5, a) ==
    IF 5 * a = edges5[0] THEN 1
    ELSE LET below == Cardinality({k \in 0..5 : edges5[k] < 5 * a})
         IN IF below = 6 THEN 0 ELSE below

\* The six edges of pd.cut(x, bins=5), each multiplied by 5000: equal-width
\* edges over [min, max], the first one lowered by 0.1% of the range; when
\* all values are equal the range is widened by 0.1% of the value on each
\* side (by 0.001 when the value is 0) and no edge is lowered.
Abs(a) == IF a < 0 THEN -a ELSE a

CutEdges5000_unadjusted(x) ==
    LET mn == SeqMin(x)
        mx == SeqMax(x)
    IN [k \in 0..5 |-> 5000 * mn + 1000 * k * (mx - mn)]

CutEdges5000(x) ==
    LET mn == SeqMin(x)
        mx == SeqMax(x)
        pad == IF mn = 0 THEN 1 ELSE Abs(mn)
    IN IF mn = mx
       THEN [k \in 0..5 |-> 5000 * mn - 5 * pad + 2 * k * pad]
       ELSE [k \in 0..5 |->
                IF k = 0 THEN 5000 * mn - 5 * (mx - mn)
                ELSE 5000 * mn + 1000 * k * (mx - mn)]

CutBinOf(edges5000, a) ==
    LET below == Cardinality({k \in 0..5 : edges5000[k] < 5000 * a})
    IN IF below = 6 THEN 0 ELSE below

ScoreBins_descending(x) ==
    IF QcutRaises(x)
    THEN [i \in 1..Len(x) |-> 6 - CutBinOf(CutEdges5000(x), x[i])]
    ELSE [i \in 1..Len(x) |-> 6 - BinOf(QcutEdges5(x), x[i])]

\* The try/except of calculate_rfm_segmentation for one column: the bin of
\* each value, by qcut, or by cut when qcut raised ValueError.
ScoreBins(x) ==
    IF QcutRaises(x)
    THEN [i \in 1..Len(x) |-> CutBinOf(CutEdges5000(x), x[i])]
    ELSE [i \in 1..Len(x) |-> BinOf(QcutEdges5(x), x[i])]

SegmentNames ==
    {"Champions", "Loyal", "Potential Loyalist", "New Customers", "At Risk",
     "Lost", "Hibernating", "Need Attention"}

assign_segment_loyal_first(r, f, m) ==
    IF r >= 3 /\ f >= 3 /\ m >= 3 THEN "Loyal"
    ELSE IF r >= 4 /\ f >= 4 /\ m >= 4 THEN "Champions"
    ELSE IF r >= 3 /\ f =< 2 /\ m >= 3 THEN "Potential Loyalist"
    ELSE IF r >= 4 /\ f =< 2 /\ m =< 2 THEN "New Customers"
    ELSE IF r =< 2 /\ f >= 3 /\ m >= 3 THEN "At Risk"
    ELSE IF r =< 2 /\ f =< 2 /\ m =< 2 THEN "Lost"
    ELSE IF r =< 2 /\ f >= 3 /\ m =< 2 THEN "Hibernating"
    ELSE "Need Attention"

assign_segment(r, f, m) ==
    IF r >= 4 /\ f >= 4 /\ m >= 4 THEN "Champions"
    ELSE IF r >= 3 /\ f >= 3 /\ m >= 3 THEN "Loyal"
    ELSE IF r >= 3 /\ f =< 2 /\ m >= 3 THEN "Potential Loyalist"
    ELSE IF r >= 4 /\ f =< 2 /\ m =< 2 THEN "New Customers"
    ELSE IF r =< 2 /\ f >= 3 /\ m >= 3 THEN "At Risk"
    ELSE IF r =< 2 /\ f =< 2 /\ m =< 2 THEN "Lost"
    ELSE IF r =< 2 /\ f >= 3 /\ m =< 2 THEN "Hibernating"
    ELSE "Need Attention"

\* rfm.groupby('segment').agg(...): count, means and sum per segment.
rfm_summary(rfm) ==
    LET segments == SortText(KeysOf(rfm, "segment"))
        Mean(g, col) == [num |-> SeqSum(Column(g, col)), den |-> Len(g)]
    IN [k \in 1..Len(segments) |->
           LET g == Group(rfm, "segment", segments[k])
           IN [segment |-> segments[k],
               nb_clients |-> Len(g),
               recency_moyen |-> Mean(g, "recency"),
               frequency_moyen |-> Mean(g, "frequency"),
               monetary_moyen |-> Mean(g, "monetary"),
               monetary_total |-> SeqSum(Column(g, "monetary"))]]

\* calculate_rfm_segmentation: the per-customer table (rows) and the
\* per-segment table rfm_summary.  pd.cut raises
\* ValueError on an empty column ("Cannot cut empty array"), outside the
\* try; astype(int) raises on a score that is NaN.
calculate_rfm_segmentation(rows, ref) ==
    LET ids == SortedSeq(KeysOf(rows, "id_client"))
        n == Len(ids)
        grp(i) == Group(rows, "id_client", ids[i])
        dernier == [i \in 1..n |-> SeqMax(Column(grp(i), "date_achat"))]
        frequency == [i \in 1..n |-> Len(grp(i))]
        monetary == [i \in 1..n |-> SeqSum(Column(grp(i), "montant"))]
        recency == [i \in 1..n |-> Days(ref - dernier[i])]
        rb == ScoreBins(recency)
        fb == ScoreBins(frequency)
        mb == ScoreBins(monetary)
        rfm == [i \in 1..n |->
                 [id_client |-> ids[i], dernier_achat |-> dernier[i],
                  frequency |-> frequency[i], monetary |-> monetary[i],
                  recency |-> recency[i],
                  R_score |-> 6 - rb[i], F_score |-> fb[i], M_score |-> mb[i],
                  segment |-> assign_segment(6 - rb[i], fb[i], mb[i])]]
    IN IF n = 0 THEN [status |-> "raised", rows |-> <<>>]
       ELSE IF \E i \in 1..n : rb[i] = 0 \/ fb[i] = 0 \/ mb[i] = 0
       THEN [status |-> "raised", rows |-> <<>>]
       ELSE [status |-> "ok",
             rows |-> rfm,
             rfm_summary |-> rfm_summary(rfm)]

\* ------------------------------------------------------ Gold: retention
statut_strict(d) ==
    IF d < 30 THEN "Actif"
    ELSE IF d < 90 THEN "À risque"
    ELSE IF d < 180 THEN "Inactif"
    ELSE "Churn"

\* The lambda of retention['statut'].
statut(d) ==
    IF d =< 30 THEN "Actif"
    ELSE IF d =< 90 THEN "À risque"
    ELSE IF d =< 180 THEN "Inactif"
    ELSE "Churn"

RetentionHorizons == {30, 60, 90, 180, 365}

\* A percentage count / total * 100, or 0 when total is 0.
Pct(count, total) ==
    IF total > 0 THEN [num |-> count * 100, den |-> total]
    ELSE [num |-> 0, den |-> 1]

\* retention.groupby('statut').agg(...): count and means per statut.
retention_summary(retention) ==
    LET statuts == SortText(KeysOf(retention, "statut"))
    IN [k \in 1..Len(statuts) |->
           LET g == Group(retention, "statut", statuts[k])
           IN [statut |-> statuts[k],
               nb_clients |-> Len(g),
               jours_inactivite_moyen |->
                   [num |-> SeqSum(Column(g, "jours_inactivite")), den |-> Len(g)],
               nb_achats_moyen |->
                   [num |-> SeqSum(Column(g, "nb_achats")), den |-> Len(g)]]]

\* Variant: a horizon counts the customers inactive for fewer days than it.
calculate_retention_metrics_strict_horizons(rows, ref) ==
    LET ids == SortedSeq(KeysOf(rows, "id_client"))
        n == Len(ids)
        grp(i) == Group(rows, "id_client", ids[i])
        detail == [i \in 1..n |->
            LET dernier == SeqMax(Column(grp(i), "date_achat"))
                jours == Days(ref - dernier)
            IN [id_client |-> ids[i], dernier_achat |-> dernier,
                jours_inactivite |-> jours, nb_achats |-> Len(grp(i)),
                statut |-> statut(jours), est_recurrent |-> Len(grp(i)) > 1]]
        count(P(_)) == Cardinality({i \in 1..n : P(detail[i])})
        actif(r) == r.statut = "Actif"
        churn(r) == r.statut = "Churn"
        recurrent(r) == r.est_recurrent
    IN [status |-> "ok",
        retention_detail |-> detail,
        retention_summary |-> retention_summary(detail),
        global_metrics |->
            [total_clients |-> n,
             clients_actifs |-> count(actif),
             clients_recurrents |-> count(recurrent),
             clients_churn |-> count(churn),
             taux_retention_30j |-> Pct(count(actif), n),
             taux_recurrence |-> Pct(count(recurrent), n),
             taux_churn |-> Pct(count(churn), n),
             retention |-> [h \in RetentionHorizons |->
                 Pct(Cardinality({i \in 1..n : detail[i].jours_inactivite < h}), n)]]]

\* calculate_retention_metrics: retention_detail, retention_summary and
\* global_metrics.
calculate_retention_metrics(rows, ref) ==
    LET ids == SortedSeq(KeysOf(rows, "id_client"))
        n == Len(ids)
        grp(i) == Group(rows, "id_client", ids[i])
        detail == [i \in 1..n |->
            LET dernier == SeqMax(Column(grp(i), "date_achat"))
                jours == Days(ref - dernier)
            IN [id_client |-> ids[i], dernier_achat |-> dernier,
                jours_inactivite |-> jours, nb_achats |-> Len(grp(i)),
                statut |-> statut(jours), est_recurrent |-> Len(grp(i)) > 1]]
        count(P(_)) == Cardinality({i \in 1..n : P(detail[i])})
        actif(r) == r.statut = "Actif"
        churn(r) == r.statut = "Churn"
        recurrent(r) == r.est_recurrent
    IN [status |-> "ok",
        retention_detail |-> detail,
        retention_summary |-> retention_summary(detail),
        global_metrics |->
            [total_clients |-> n,
             clients_actifs |-> count(actif),
             clients_recurrents |-> count(recurrent),
             clients_churn |-> count(churn),
             taux_retention_30j |-> Pct(count(actif), n),
             taux_recurrence |-> Pct(count(recurrent), n),
             taux_churn |-> Pct(count(churn), n),
             retention |-> [h \in RetentionHorizons |->
                 Pct(Cardinality({i \in 1..n : detail[i].jours_inactivite =< h}), n)]]]

\* ------------------------------------------------------- Gold: calendar
\* The lengths of the months of 2023 and 2024.
MonthLengths ==
    <<31, 28, 31, 30, 31, 30, 31, 31, 30, 31, 30, 31,
      31, 29, 31, 30, 31, 30, 31, 31, 30, 31, 30, 31>>

RECURSIVE MonthIndex(_, _)
MonthIndex(day, k) ==
    IF day < MonthLengths[k] THEN k ELSE MonthIndex(day - MonthLengths[k], k + 1)

\* dt.to_period('M') of a timestamp, as <<year, month>>; astype(str) prints
\* it "YYYY-MM", zero padded, so the order of the strings is the order of
\* the pairs.
PeriodM(t) ==
    LET k == MonthIndex(Days(t), 1)
    IN <<2023 + ((k - 1) \div 12), ((k - 1) % 12) + 1>>

PeriodLess(a, b) == a[1] < b[1] \/ (a[1] = b[1] /\ a[2] < b[2])

RECURSIVE SortMonths_by_month_number(_)
SortMonths_by_month_number(S) ==
    IF S = {} THEN <<>>
    ELSE LET m == CHOOSE x \in S :
                      \A y \in S : x = y \/ x[2] < y[2] \/ (x[2] = y[2] /\ x[1] < y[1])
         IN <<m>> \o SortMonths_by_month_number(S \ {m})

\* The month keys in the order of groupby('annee_mois') followed by
\* sort_values('annee_mois').
RECURSIVE SortMonths(_)
SortMonths(S) ==
    IF S = {} THEN <<>>
    ELSE LET m == CHOOSE x \in S : \A y \in S : x = y \/ PeriodLess(x, y)
         IN <<m>> \o SortMonths(S \ {m})

InMonth(rows, k) == LET Keep(r) == PeriodM(r.date_achat) = k IN SelectSeq(rows, Keep)

\* (cur - prev) / prev * 100 followed by fillna(0): NaN (no previous row,
\* or 0/0) becomes 0; a division of a non-zero by zero stays infinite.
GrowthRate(cur, hasPrev, prev) ==
    IF ~hasPrev \/ (prev = 0 /\ cur = 0) THEN [num |-> 0, den |-> 1]
    ELSE [num |-> (cur - prev) * 100, den |-> prev]

\* The per-month sums both functions start from, in sorted order.
MonthlyTotals(rows) ==
    LET keys == SortMonths({PeriodM(rows[i].date_achat) : i \in 1..Len(rows)})
    IN [i \in 1..Len(keys) |->
           [annee_mois |-> keys[i],
            ca_total |-> SeqSum(Column(InMonth(rows, keys[i]), "montant")),
            nb_clients |-> Cardinality(KeysOf(InMonth(rows, keys[i]), "id_client")),
            nb_achats |-> Len(InMonth(rows, keys[i]))]]

\* aggregate_by_month
aggregate_by_month(rows) ==
    LET agg == MonthlyTotals(rows)
    IN [status |-> "ok",
        rows |-> [i \in 1..Len(agg) |->
            [annee_mois |-> agg[i].annee_mois,
             ca_total |-> agg[i].ca_total,
             nb_achats |-> agg[i].nb_achats,
             nb_clients_uniques |-> agg[i].nb_clients,
             taux_croissance_mom |->
                 GrowthRate(agg[i].ca_total, i > 1,
                            IF i > 1 THEN agg[i - 1].ca_total ELSE 0)]]]

\* Variant: the year-over-year rate looks at any month of the previous year.
calculate_growth_metrics_any_month(rows) ==
    LET monthly == MonthlyTotals(rows)
        n == Len(monthly)
        prevYear(i) == {j \in 1..n :
                           monthly[j].annee_mois[1] = monthly[i].annee_mois[1] - 1}
        growth == [i \in 1..n |->
            [annee_mois |-> monthly[i].annee_mois,
             ca_total |-> monthly[i].ca_total,
             nb_clients |-> monthly[i].nb_clients,
             nb_achats |-> monthly[i].nb_achats,
             taux_croissance_mom |->
                 GrowthRate(monthly[i].ca_total, i > 1,
                            IF i > 1 THEN monthly[i - 1].ca_total ELSE 0),
             taux_croissance_yoy |->
                 GrowthRate(monthly[i].ca_total, prevYear(i) # {},
                            IF prevYear(i) # {}
                            THEN monthly[CHOOSE j \in prevYear(i) : TRUE].ca_total
                            ELSE 0)]]
    IN [status |-> "ok",
        monthly_growth |-> growth,
        growth_summary |->
            [taux_croissance_annualise |->
                 IF n > 1 /\ growth[1].ca_total > 0
                 THEN [zero |-> FALSE, last |-> growth[n].ca_total,
                       first |-> growth[1].ca_total, months |-> n]
                 ELSE [zero |-> TRUE, last |-> 0, first |-> 0, months |-> n],
             ca_premier_mois |-> IF n > 0 THEN growth[1].ca_total ELSE 0,
             ca_dernier_mois |-> IF n > 0 THEN growth[n].ca_total ELSE 0,
             nb_mois |-> n]]

\* calculate_growth_metrics.  The annualised rate is a real power,
\* ((last / first) ** (12 / nb_mois) - 1) * 100; it is kept as its operands.
calculate_growth_metrics(rows) ==
    LET monthly == MonthlyTotals(rows)
        n == Len(monthly)
        prevYear(i) == {j \in 1..n :
                           /\ monthly[j].annee_mois[1] = monthly[i].annee_mois[1] - 1
                           /\ monthly[j].annee_mois[2] = monthly[i].annee_mois[2]}
        growth == [i \in 1..n |->
            [annee_mois |-> monthly[i].annee_mois,
             ca_total |-> monthly[i].ca_total,
             nb_clients |-> monthly[i].nb_clients,
             nb_achats |-> monthly[i].nb_achats,
             taux_croissance_mom |->
                 GrowthRate(monthly[i].ca_total, i > 1,
                            IF i > 1 THEN monthly[i - 1].ca_total ELSE 0),
             taux_croissance_yoy |->
                 GrowthRate(monthly[i].ca_total, prevYear(i) # {},
                            IF prevYear(i) # {}
                            THEN monthly[CHOOSE j \in prevYear(i) : TRUE].ca_total
                            ELSE 0)]]
    IN [status |-> "ok",
        monthly_growth |-> growth,
        growth_summary |->
            [taux_croissance_annualise |->
                 IF n > 1 /\ growth[1].ca_total > 0
                 THEN [zero |-> FALSE, last |-> growth[n].ca_total,
                       first |-> growth[1].ca_total, months |-> n]
                 ELSE [zero |-> TRUE, last |-> 0, first |-> 0, months |-> n],
             ca_premier_mois |-> IF n > 0 THEN growth[1].ca_total ELSE 0,
             ca_dernier_mois |-> IF n > 0 THEN growth[n].ca_total ELSE 0,
             nb_mois |-> n]]

\* ------------------------------------------------------- Gold: cohorts
\* The period of a missing timestamp prints "NaT", which sorts after every
\* "YYYY-MM" string.
NaTPeriod == <<9999, 99>>

PeriodOrNaT(t) == IF t = NULL THEN NaTPeriod ELSE PeriodM(t)

cohort_age_months_only(cohorte, achat) ==
    IF achat = NaTPeriod THEN 0 ELSE achat[2] - cohorte[2]

\* (achat.year - cohorte.year) * 12 + (achat.month - cohorte.month), then
\* fillna(0): a "NaT" purchase month parses back to NaT and gives 0.
cohort_age(cohorte, achat) ==
    IF achat = NaTPeriod THEN 0
    ELSE (achat[1] - cohorte[1]) * 12 + (achat[2] - cohorte[2])

PairLess(a, b) == PeriodLess(a[1], b[1]) \/ (a[1] = b[1] /\ PeriodLess(a[2], b[2]))

\* Group keys (cohorte_mois, mois_achat) in groupby order.
RECURSIVE SortPairs(_)
SortPairs(S) ==
    IF S = {} THEN <<>>
    ELSE LET m == CHOOSE x \in S : \A y \in S : x = y \/ PairLess(x, y)
         IN <<m>> \o SortPairs(S \ {m})

\* calculate_cohort_analysis on a fact table that already carries
\* date_inscription, as create_fact_achats builds it.
calculate_cohort_analysis(rows) ==
    LET HasSignup(r) == r.date_inscription # NULL
        kept == SelectSeq(rows, HasSignup)
        cohorte(r) == PeriodM(r.date_inscription)
        achat(r) == PeriodOrNaT(r.date_achat)
        pairs == SortPairs({<<cohorte(kept[i]), achat(kept[i])>> : i \in 1..Len(kept)})
        cohorts == SortMonths({cohorte(kept[i]) : i \in 1..Len(kept)})
        inPair(k) == LET Keep(r) == cohorte(r) = k[1] /\ achat(r) = k[2]
                     IN SelectSeq(kept, Keep)
        inCohort(c) == LET Keep(r) == cohorte(r) = c IN SelectSeq(kept, Keep)
    IN [status |-> "ok",
        cohort_ca |-> [i \in 1..Len(pairs) |->
            [cohorte_mois |-> pairs[i][1],
             mois_achat |-> pairs[i][2],
             ca_total |-> SeqSum(Column(inPair(pairs[i]), "montant")),
             nb_clients |-> Cardinality(KeysOf(inPair(pairs[i]), "id_client")),
             nb_achats |-> Len(inPair(pairs[i])),
             age_cohorte_mois |-> cohort_age(pairs[i][1], pairs[i][2])]],
        cohort_total |-> [i \in 1..Len(cohorts) |->
            [cohorte_mois |-> cohorts[i],
             ca_total |-> SeqSum(Column(inCohort(cohorts[i]), "montant")),
             nb_clients |-> Cardinality(KeysOf(inCohort(cohorts[i]), "id_client")),
             nb_achats |-> Len(inCohort(cohorts[i]))]],
        cohort_retention |-> [i \in 1..Len(pairs) |->
            [cohorte_mois |-> pairs[i][1],
             mois_achat |-> pairs[i][2],
             nb_clients_actifs |-> Cardinality(KeysOf(inPair(pairs[i]), "id_client")),
             taille_cohorte |-> Cardinality(KeysOf(inCohort(pairs[i][1]), "id_client")),
             taux_retention |->
                 [num |-> Cardinality(KeysOf(inPair(pairs[i]), "id_client")) * 100,
                  den |-> Cardinality(KeysOf(inCohort(pairs[i][1]), "id_client"))]]]]

\* ------------------------------------------------------- Gold: concentration
\* np.sum(index * sorted_values) with index = 1..n.
RankedSum(sorted) == SeqSum([i \in 1..Len(sorted) |-> i * sorted[i]])

calculate_gini_unsorted(vals) ==
    LET n == Len(vals)
        total == SeqSum(vals)
    IN IF n = 0 THEN [status |-> "raised", num |-> 0, den |-> 0]
       ELSE IF total = 0 THEN [status |-> "nan", num |-> 0, den |-> 0]
       ELSE [status |-> "ok",
             num |-> 2 * RankedSum(vals) - (n + 1) * total,
             den |-> n * total]

\* calculate_gini: 2 * sum(index * sorted) / (n * sum(sorted)) - (n + 1) / n,
\* kept as the quotient num / den.  (n + 1) / n divides Python integers, so
\* an empty array raises ZeroDivisionError; the first quotient is a numpy
\* division, so a zero total gives NaN.
calculate_gini(vals) ==
    LET sorted_values == SortAsc(vals)
        n == Len(sorted_values)
        total == SeqSum(sorted_values)
    IN IF n = 0 THEN [status |-> "raised", num |-> 0, den |-> 0]
       ELSE IF total = 0 THEN [status |-> "nan", num |-> 0, den |-> 0]
       ELSE [status |-> "ok",
             num |-> 2 * RankedSum(sorted_values) - (n + 1) * total,
             den |-> n * total]

\* ------------------------------------------------------- Gold: fact table
\* dt.dayofweek, Monday = 0; 2023-01-01 is a Sunday.
DayOfWeek(t) == (Days(t) + 6) % 7

DayNames ==
    <<"Monday", "Tuesday", "Wednesday", "Thursday", "Friday", "Saturday", "Sunday">>

\* dt.hour of a half-day timestamp.
HourOf(t) == (t % TicksPerDay) * 12

\* dt.year, for 2023 and 2024.
YearOf(t) == IF Days(t) < 365 THEN 2023 ELSE 2024

\* dt.isocalendar().week: the week of the year of the Thursday of the
\* date's Monday-to-Sunday week.
IsoWeek(t) ==
    LET thursday == Days(t) - DayOfWeek(t) + 3
        dayOfYear == IF thursday < 0 THEN thursday + 365
                     ELSE IF thursday < 365 THEN thursday
                     ELSE IF thursday < 731 THEN thursday - 365
                     ELSE thursday - 731
    IN (dayOfYear \div 7) + 1

\* A row built from the purchase a keeps the columns the enrichment added
\* to a (ml), when the purchases table is an enriched one.
KeepMl(row, a) ==
    IF "ml" \in DOMAIN a
    THEN [c \in DOMAIN row \cup {"ml"} |-> IF c = "ml" THEN a.ml ELSE row[c]]
    ELSE row

\* The columns create_fact_achats derives from date_achat.  annee_semaine
\* is the calendar year, "-W" and the ISO week on two digits, kept as the
\* pair <<year, week>>; annee_mois is kept as <<year, month>>.
derive_time_columns(r) ==
  KeepMl(
    [id_achat |-> r.id_achat,
     id_client |-> r.id_client,
     date_achat |-> r.date_achat,
     montant |-> r.montant,
     produit |-> r.produit,
     pays |-> r.pays,
     date_inscription |-> r.date_inscription,
     anciennete_jours |-> IF r.date_inscription = NULL THEN NULL
                          ELSE Days(r.date_achat - r.date_inscription),
     annee |-> YearOf(r.date_achat),
     mois |-> PeriodM(r.date_achat)[2],
     semaine_annee |-> IsoWeek(r.date_achat),
     jour_semaine |-> DayNames[DayOfWeek(r.date_achat) + 1],
     jour_semaine_num |-> DayOfWeek(r.date_achat),
     heure |-> HourOf(r.date_achat),
     est_weekend |-> DayOfWeek(r.date_achat) \in {5, 6},
     annee_mois |-> PeriodM(r.date_achat),
     annee_semaine |-> <<YearOf(r.date_achat), IsoWeek(r.date_achat)>>],
    r)

MergedRows_inner(a, clients) ==
    LET Match(c) == c.id_client = a.id_client
        found == SelectSeq(clients, Match)
    IN [j \in 1..Len(found) |->
           KeepMl([id_achat |-> a.id_achat, id_client |-> a.id_client,
                   date_achat |-> a.date_achat, montant |-> a.montant,
                   produit |-> a.produit, pays |-> found[j].pays,
                   date_inscription |-> found[j].date_inscription], a)]

\* The rows achats.merge(clients[['id_client', 'pays', 'date_inscription']],
\* on='id_client', how='left') gives for one purchase: one per customer row
\* with that id_client, in the customers' order, or one with missing
\* customer columns when there is none.
MergedRows(a, clients) ==
    LET Match(c) == c.id_client = a.id_client
        found == SelectSeq(clients, Match)
        row(pays, date_inscription) ==
            KeepMl([id_achat |-> a.id_achat, id_client |-> a.id_client,
                    date_achat |-> a.date_achat, montant |-> a.montant,
                    produit |-> a.produit, pays |-> pays,
                    date_inscription |-> date_inscription], a)
    IN IF found = <<>> THEN <<row(NA, NULL)>>
       ELSE [j \in 1..Len(found) |-> row(found[j].pays, found[j].date_inscription)]

\* create_fact_achats: the left merge, in the order of the purchases, then
\* the derived columns.
RECURSIVE create_fact_achats(_, _)
create_fact_achats(achats, clients) ==
    IF achats = <<>> THEN <<>>
    ELSE [j \in 1..Len(MergedRows(Head(achats), clients)) |->
             derive_time_columns(MergedRows(Head(achats), clients)[j])]
         \o create_fact_achats(Tail(achats), clients)

\* groupby drops the rows whose key is missing.
TextKeys(rows, col) == SortText(KeysOf(rows, col) \ {NA})

Ratio(n, d) == [num |-> n, den |-> d]

\* (num / den * 100).round(2) in hundredths of a percent; NaN (0 / 0) is NULL.
PctRound2(num, den) ==
    IF den = 0 THEN NULL
    ELSE LET q == (num * 10000) \div den
             twice == 2 * ((num * 10000) % den)
         IN IF twice > den \/ (twice = den /\ q % 2 = 1) THEN q + 1 ELSE q

\* The aggregates every groupby(...).agg({...}) of the Gold layer picks from.
Measures(g) ==
    [ca_total |-> SeqSum(Column(g, "montant")),
     ca_moyen |-> Ratio(SeqSum(Column(g, "montant")), Len(g)),
     ca_min |-> SeqMin(Column(g, "montant")),
     ca_max |-> SeqMax(Column(g, "montant")),
     nb_achats |-> Len(g),
     nb_clients_uniques |-> Cardinality(KeysOf(g, "id_client")),
     nb_achats_total |-> Len(g),
     nb_produits_differents |-> Cardinality(KeysOf(g, "produit") \ {NA}),
     date_debut |-> SeqMin(Column(g, "date_achat")),
     date_fin |-> SeqMax(Column(g, "date_achat")),
     panier_moyen |-> Ratio(SeqSum(Column(g, "montant")), Len(g))]

\* One output row per key, in the given key order.
GroupedRows(rows, col, keys) ==
    [i \in 1..Len(keys) |->
        [key |-> keys[i], m |-> Measures(Group(rows, col, keys[i]))]]

\* aggregate_by_day
aggregate_by_day(rows) ==
    [status |-> "ok",
     rows |-> GroupedRows(rows, "date_achat", SortedSeq(KeysOf(rows, "date_achat")))]

\* aggregate_by_week
aggregate_by_week(rows) ==
    [status |-> "ok",
     rows |-> GroupedRows(rows, "annee_semaine", SortMonths(KeysOf(rows, "annee_semaine")))]

\* aggregate_by_hour
aggregate_by_hour(rows) ==
    [status |-> "ok",
     rows |-> GroupedRows(rows, "heure", SortedSeq(KeysOf(rows, "heure")))]

\* sort_values(..., ascending=False) / nlargest of rows g by the weights w
\* (one per row); rows of equal weight keep their order.
RECURSIVE SortDescBy(_, _)
SortDescBy(g, w) ==
    IF g = <<>> THEN <<>>
    ELSE LET i == CHOOSE k \in 1..Len(g) :
                      /\ \A j \in 1..Len(g) : w[k] >= w[j]
                      /\ \A j \in 1..(k - 1) : w[j] # w[k]
             Drop(q) == [j \in 1..(Len(q) - 1) |-> IF j < i THEN q[j] ELSE q[j + 1]]
         IN <<g[i]>> \o SortDescBy(Drop(g), Drop(w))

TotalsOf(g) == [i \in 1..Len(g) |-> g[i].m.ca_total]

\* aggregate_by_country
aggregate_by_country(rows) ==
    LET groups == GroupedRows(rows, "pays", TextKeys(rows, "pays"))
        total_ca == SeqSum([i \in 1..Len(groups) |-> groups[i].m.ca_total])
        withPct == [i \in 1..Len(groups) |->
            [key |-> groups[i].key,
             m |-> groups[i].m,
             ca_par_client |-> Ratio(groups[i].m.ca_total, groups[i].m.nb_clients_uniques),
             nb_achats_par_client |->
                 Ratio(groups[i].m.nb_achats_total, groups[i].m.nb_clients_uniques),
             pct_ca_total |-> PctRound2(groups[i].m.ca_total, total_ca)]]
    IN [status |-> "ok", rows |-> SortDescBy(withPct, TotalsOf(withPct))]

\* ------------------------------------------------------- Gold: customers
\* The Silver customers table handed to the Gold functions as clients_df.
clients_df ==
    <<[id_client |-> 1, pays |-> "FR", date_inscription |-> 18],
      [id_client |-> 2, pays |-> "DE", date_inscription |-> 706]>>

\* The value a left merge on id_client brings from clients_df.
ClientField(clients, id, col, missing) ==
    IF \E i \in 1..Len(clients) : clients[i].id_client = id
    THEN clients[CHOOSE i \in 1..Len(clients) : clients[i].id_client = id][col]
    ELSE missing

RatAdd(a, b) == Ratio(a.num * b.den + b.num * a.den, a.den * b.den)

RECURSIVE RatSum(_)
RatSum(q) == IF q = <<>> THEN Ratio(0, 1) ELSE RatAdd(q[1], RatSum(Tail(q)))

\* The mean of a column of quotients.
RatMean(q) == Ratio(RatSum(q).num, RatSum(q).den * Len(q))

calculate_clv_metrics_unguarded(rows, clients) ==
    LET ids == SortedSeq(KeysOf(rows, "id_client"))
        clv == [i \in 1..Len(ids) |->
            LET g == Group(rows, "id_client", ids[i])
                m == Measures(g)
                duree == Days(m.date_fin - m.date_debut)
                freq == Ratio(m.nb_achats * 30, duree)
            IN [id_client |-> ids[i],
                clv_total |-> m.ca_total,
                panier_moyen |-> m.panier_moyen,
                nb_achats |-> m.nb_achats,
                premier_achat |-> m.date_debut,
                dernier_achat |-> m.date_fin,
                nb_produits_differents |-> m.nb_produits_differents,
                duree_vie_jours |-> duree,
                frequence_mensuelle |-> freq,
                clv_predictif_12m |->
                    Ratio(freq.num * m.panier_moyen.num * 12, freq.den * m.panier_moyen.den),
                pays |-> ClientField(clients, ids[i], "pays", NA),
                date_inscription |-> ClientField(clients, ids[i], "date_inscription", NULL)]]
        countries == TextKeys(clv, "pays")
        by_country == [k \in 1..Len(countries) |->
            LET g == Group(clv, "pays", countries[k])
            IN [pays |-> countries[k],
                clv_moyen |-> Ratio(SeqSum(Column(g, "clv_total")), Len(g)),
                clv_total |-> SeqSum(Column(g, "clv_total")),
                nb_clients |-> Len(g),
                clv_predictif_moyen |-> RatMean(Column(g, "clv_predictif_12m")),
                nb_achats_moyen |-> Ratio(SeqSum(Column(g, "nb_achats")), Len(g)),
                panier_moyen |-> RatMean(Column(g, "panier_moyen"))]]
    IN [status |-> "ok", clv |-> clv, clv_by_country |-> by_country]

\* calculate_clv_metrics: the per-customer table and the per-country table.
calculate_clv_metrics(rows, clients) ==
    LET ids == SortedSeq(KeysOf(rows, "id_client"))
        clv == [i \in 1..Len(ids) |->
            LET g == Group(rows, "id_client", ids[i])
                m == Measures(g)
                duree == Days(m.date_fin - m.date_debut)
                freq == IF duree > 30 THEN Ratio(m.nb_achats * 30, duree)
                        ELSE Ratio(m.nb_achats, 1)
            IN [id_client |-> ids[i],
                clv_total |-> m.ca_total,
                panier_moyen |-> m.panier_moyen,
                nb_achats |-> m.nb_achats,
                premier_achat |-> m.date_debut,
                dernier_achat |-> m.date_fin,
                nb_produits_differents |-> m.nb_produits_differents,
                duree_vie_jours |-> duree,
                frequence_mensuelle |-> freq,
                clv_predictif_12m |->
                    Ratio(freq.num * m.panier_moyen.num * 12, freq.den * m.panier_moyen.den),
                pays |-> ClientField(clients, ids[i], "pays", NA),
                date_inscription |-> ClientField(clients, ids[i], "date_inscription", NULL)]]
        countries == TextKeys(clv, "pays")
        by_country == [k \in 1..Len(countries) |->
            LET g == Group(clv, "pays", countries[k])
            IN [pays |-> countries[k],
                clv_moyen |-> Ratio(SeqSum(Column(g, "clv_total")), Len(g)),
                clv_total |-> SeqSum(Column(g, "clv_total")),
                nb_clients |-> Len(g),
                clv_predictif_moyen |-> RatMean(Column(g, "clv_predictif_12m")),
                nb_achats_moyen |-> Ratio(SeqSum(Column(g, "nb_achats")), Len(g)),
                panier_moyen |-> RatMean(Column(g, "panier_moyen"))]]
    IN [status |-> "ok", clv |-> clv, clv_by_country |-> by_country]

\* calculate_product_metrics
calculate_product_metrics(rows) ==
    LET groups == GroupedRows(rows, "produit", TextKeys(rows, "produit"))
        total_ca == SeqSum(TotalsOf(groups))
        products == [i \in 1..Len(groups) |->
            [key |-> groups[i].key,
             m |-> groups[i].m,
             ca_par_client |-> Ratio(groups[i].m.ca_total, groups[i].m.nb_clients_uniques),
             pct_ca_total |-> PctRound2(groups[i].m.ca_total, total_ca)]]
        ids == SortedSeq(KeysOf(rows, "id_client"))
        basket == [i \in 1..Len(ids) |->
            LET m == Measures(Group(rows, "id_client", ids[i]))
            IN [id_client |-> ids[i],
                nb_produits_differents |-> m.nb_produits_differents,
                nb_achats_total |-> m.nb_achats_total,
                ca_total |-> m.ca_total,
                diversite_moyenne |-> Ratio(m.nb_produits_differents, m.nb_achats_total),
                type_client |-> IF m.nb_produits_differents = 1 THEN "Mono-produit"
                                ELSE "Multi-produits"]]
        types == TextKeys(basket, "type_client")
    IN [status |-> "ok",
        product_metrics |-> products,
        top_products_ca |-> SubSeq(SortDescBy(products, TotalsOf(products)), 1,
                                   IF Len(products) < 10 THEN Len(products) ELSE 10),
        top_products_volume |->
            SubSeq(SortDescBy(products, [i \in 1..Len(products) |-> products[i].m.nb_achats_total]),
                   1, IF Len(products) < 10 THEN Len(products) ELSE 10),
        basket_diversity |-> basket,
        diversity_summary |-> [k \in 1..Len(types) |->
            LET g == Group(basket, "type_client", types[k])
            IN [type_client |-> types[k],
                id_client |-> Len(g),
                nb_produits_differents |->
                    Ratio(SeqSum(Column(g, "nb_produits_differents")), Len(g)),
                ca_total |-> Ratio(SeqSum(Column(g, "ca_total")), Len(g))]]]

MonthNames ==
    <<"Janvier", "Février", "Mars", "Avril", "Mai", "Juin", "Juillet", "Août",
      "Septembre", "Octobre", "Novembre", "Décembre">>

\* calculate_seasonality.  The day-of-week table ends sorted by jour_order,
\* the position of the day name in the week.
calculate_seasonality(rows) ==
    LET days == SortedSeq(KeysOf(rows, "jour_semaine_num"))
        months == SortedSeq(KeysOf(rows, "mois"))
        weekend == (IF FALSE \in KeysOf(rows, "est_weekend") THEN <<FALSE>> ELSE <<>>)
                       \o (IF TRUE \in KeysOf(rows, "est_weekend") THEN <<TRUE>> ELSE <<>>)
    IN [status |-> "ok",
        by_day_of_week |-> [i \in 1..Len(days) |->
            [jour_semaine |-> DayNames[days[i] + 1],
             jour_order |-> days[i],
             m |-> Measures(Group(rows, "jour_semaine_num", days[i]))]],
        by_hour |-> GroupedRows(rows, "heure", SortedSeq(KeysOf(rows, "heure"))),
        by_month |-> [i \in 1..Len(months) |->
            [mois |-> months[i],
             mois_nom |-> MonthNames[months[i]],
             m |-> Measures(Group(rows, "mois", months[i]))]],
        weekend_vs_week |-> [i \in 1..Len(weekend) |->
            [est_weekend |-> weekend[i],
             type |-> IF weekend[i] THEN "Weekend" ELSE "Semaine",
             m |-> Measures(Group(rows, "est_weekend", weekend[i]))]]]

\* ------------------------------------------------------- Gold: distributions
\* Series.quantile(k / 4) with linear interpolation, multiplied by 4.
Quartile4(vals, k) ==
    LET v == SortAsc(vals)
        pos4 == (Len(v) - 1) * k
        lo == (pos4 \div 4) + 1
    IN IF pos4 % 4 = 0 THEN 4 * v[lo]
       ELSE 4 * v[lo] + (v[lo + 1] - v[lo]) * (pos4 % 4)

\* calculate_statistical_distributions.  Of distributions_summary the
\* model keeps mean, median, min, max, q25, q75, nb_outliers and
\* pct_outliers; the standard deviation, skewness, kurtosis and the upper
\* percentiles are real numbers that never raise.  pct_outliers divides
\* len(outliers) by len(fact_achats), two Python integers, so a table
\* without rows raises ZeroDivisionError.
calculate_statistical_distributions(rows) ==
    LET montants == Column(rows, "montant")
        n == Len(rows)
        q1 == Quartile4(montants, 1)
        q3 == Quartile4(montants, 3)
        iqr == q3 - q1
        lower8 == 2 * q1 - 3 * iqr
        upper8 == 2 * q3 + 3 * iqr
        IsOutlier(r) == 8 * r.montant < lower8 \/ 8 * r.montant > upper8
        outliers == SelectSeq(rows, IsOutlier)
        ids == SortedSeq(KeysOf(rows, "id_client"))
        produits == TextKeys(rows, "produit")
    IN IF n = 0 THEN [status |-> "raised"]
       ELSE [status |-> "ok",
             distributions_summary |->
                 [mean |-> Ratio(SeqSum(montants), n),
                  median4 |-> Quartile4(montants, 2),
                  min |-> SeqMin(montants),
                  max |-> SeqMax(montants),
                  q25x4 |-> q1,
                  q75x4 |-> q3,
                  nb_outliers |-> Len(outliers),
                  pct_outliers |-> Ratio(Len(outliers) * 100, n)],
             client_stats |-> [i \in 1..Len(ids) |->
                 LET m == Measures(Group(rows, "id_client", ids[i]))
                 IN [id_client |-> ids[i], ca_total |-> m.ca_total,
                     panier_moyen |-> m.panier_moyen, nb_achats |-> m.nb_achats,
                     nb_achats_total |-> m.nb_achats_total]],
             produit_stats |-> [i \in 1..Len(produits) |->
                 LET m == Measures(Group(rows, "produit", produits[i]))
                 IN [produit |-> produits[i], montant_moyen |-> m.ca_moyen,
                     montant_min |-> m.ca_min, montant_max |-> m.ca_max]],
             outliers |-> outliers]

\* groupby(col)['montant'].sum().sort_values(ascending=False) with its
\* running total and running share of total_ca.
ConcentrationTable(groups, total_ca) ==
    LET sorted == SortDescBy(groups, TotalsOf(groups))
    IN [i \in 1..Len(sorted) |->
           LET cumul == SeqSum(SubSeq(TotalsOf(sorted), 1, i))
           IN [key |-> sorted[i].key,
               ca_total |-> sorted[i].m.ca_total,
               ca_cumul |-> cumul,
               pct_ca_cumul |-> Ratio(cumul * 100, total_ca),
               pct_clients_cumul |-> Ratio(i * 100, Len(sorted))]]

\* calculate_concentration_metrics.  It raises when one of its three
\* calculate_gini calls raises, that is when the customers, the countries
\* or the products have no group at all.
calculate_concentration_metrics(rows) ==
    LET clients == GroupedRows(rows, "id_client", SortedSeq(KeysOf(rows, "id_client")))
        total_ca == SeqSum(TotalsOf(clients))
        client_ca == ConcentrationTable(clients, total_ca)
        country_ca == ConcentrationTable(
                          GroupedRows(rows, "pays", TextKeys(rows, "pays")), total_ca)
        product_ca == ConcentrationTable(
                          GroupedRows(rows, "produit", TextKeys(rows, "produit")), total_ca)
        n == Len(client_ca)
        InPareto(r) == r.pct_ca_cumul.num =< 80 * r.pct_ca_cumul.den
        top_10_pct == n \div 10
        top_20_pct == n \div 5
        ca_top(k) == SeqSum(SubSeq(Column(client_ca, "ca_total"), 1, k))
        gini_clients == calculate_gini(Column(client_ca, "ca_total"))
        gini_pays == calculate_gini(Column(country_ca, "ca_total"))
        gini_produits == calculate_gini(Column(product_ca, "ca_total"))
    IN IF "raised" \in {gini_clients.status, gini_pays.status, gini_produits.status}
       THEN [status |-> "raised"]
       ELSE [status |-> "ok",
             client_concentration |-> client_ca,
             country_concentration |-> country_ca,
             product_concentration |-> product_ca,
             concentration_summary |->
                 [indice_gini_clients |-> gini_clients,
                  indice_gini_pays |-> gini_pays,
                  indice_gini_produits |-> gini_produits,
                  pareto_20_pct_clients |->
                      Pct(Len(SelectSeq(client_ca, InPareto)), n),
                  pct_ca_top_10_clients |-> Pct(ca_top(top_10_pct), total_ca),
                  pct_ca_top_20_clients |-> Pct(ca_top(top_20_pct), total_ca),
                  nb_clients_total |-> n,
                  nb_pays_total |-> Len(country_ca),
                  nb_produits_total |-> Len(product_ca)]]

\* ------------------------------------------------------- Gold: KPIs
\* x / y if y > 0 else 0
RatioOrZero(x, y) == IF y > 0 THEN Ratio(x, y) ELSE Ratio(0, 1)

\* calculate_global_kpis, with pd.Timestamp.now() = now.  The span of an
\* empty table is NaT and its .days is NaN, which is not > 0.
calculate_global_kpis(rows, clients, now) ==
    LET total_ca == SeqSum(Column(rows, "montant"))
        nb_achats == Len(rows)
        nb_clients == Cardinality(KeysOf(rows, "id_client"))
        date_min == IF nb_achats = 0 THEN NULL ELSE SeqMin(Column(rows, "date_achat"))
        date_max == IF nb_achats = 0 THEN NULL ELSE SeqMax(Column(rows, "date_achat"))
        duree_jours == IF nb_achats = 0 THEN NULL ELSE Days(date_max - date_min)
        Since(days) == LET Keep(r) == r.date_achat >= now - days * TicksPerDay
                       IN SelectSeq(rows, Keep)
        IsNew(c) == c.date_inscription # NULL
                        /\ c.date_inscription >= now - 30 * TicksPerDay
    IN [status |-> "ok",
        kpis |->
            [total_ca |-> total_ca,
             nb_achats |-> nb_achats,
             nb_clients |-> nb_clients,
             nb_produits |-> Cardinality(KeysOf(rows, "produit") \ {NA}),
             nb_pays |-> Cardinality(KeysOf(clients, "pays") \ {NA}),
             panier_moyen |-> RatioOrZero(total_ca, nb_achats),
             ca_par_client |-> RatioOrZero(total_ca, nb_clients),
             nb_achats_par_client |-> RatioOrZero(nb_achats, nb_clients),
             ca_par_jour |-> RatioOrZero(total_ca, duree_jours),
             nb_achats_par_jour |-> RatioOrZero(nb_achats, duree_jours),
             clients_actifs_30j |-> Cardinality(KeysOf(Since(30), "id_client")),
             clients_actifs_90j |-> Cardinality(KeysOf(Since(90), "id_client")),
             nouveaux_clients_30j |-> Len(SelectSeq(clients, IsNew)),
             date_debut |-> date_min,
             date_fin |-> date_max,
             duree_jours |-> duree_jours]]

\* ------------------------------------------------------- inputs, cleaner
\* Raw purchase rows the cleaner is exercised on.
RawAchatRows ==
    { [id_achat |-> a, id_client |-> c, date_achat |-> dm[1], montant |-> dm[2],
       produit |-> IF a = 1 THEN "A" ELSE NA] :
        a \in {1, 2},
        c \in {1, 2, NULL, BAD},
        dm \in { <<Now, 50>>, <<Now, 0>>, <<Now, 10000>>, <<Now, 10001>>,
                 <<Now, NULL>>, <<Now, BAD>>, <<Now + 1, 50>> } }

RECURSIVE SeqsUpTo(_, _)
SeqsUpTo(S, n) ==
    IF n = 0 THEN {<<>>}
    ELSE LET shorter == SeqsUpTo(S, n - 1)
         IN shorter \cup {Append(s, x) : s \in {t \in shorter : Len(t) = n - 1}, x \in S}

ValidIdChoices ==
    { [given |-> FALSE, ids |-> {}], [given |-> TRUE, ids |-> {1}],
      [given |-> TRUE, ids |-> {1, 2}] }

NoOut == [status |-> "none", df |-> Frame(<<>>, {})]

\* ------------------------------------------- silver_transformation_flow
Datasets == {"clients", "achats"}

\* A Silver object: absent, or the rows of the parquet file.
Absent == [present |-> FALSE, rows |-> <<>>]
Stored(rows) == [present |-> TRUE, rows |-> rows]

\* write_parquet_to_silver: an empty table is not written.
write_parquet_to_silver(bucket, name, rows) ==
    IF rows = <<>> THEN bucket ELSE [bucket EXCEPT ![name] = Stored(rows)]

\* validate_data_quality with QUALITY_RULES["clients"]: the uniqueness
\* check divides the Python int nunique() by len(df).
ValidateClientsRaises(rows) == Len(rows) = 0

\* The valid_client_ids the flow hands to clean_achats_data: None unless
\* clients was processed earlier in this run with status "ok"; then the
\* id_client column read back from clients.parquet.
flow_valid_client_ids(summ, bucket) ==
    IF summ["clients"] = "ok" /\ bucket["clients"].present
          /\ bucket["clients"].rows # <<>>
    THEN [given |-> TRUE,
          ids |-> {bucket["clients"].rows[i].id_client :
                       i \in 1..Len(bucket["clients"].rows)}]
    ELSE [given |-> FALSE, ids |-> {}]

StatusOf(rows) == IF rows # <<>> THEN "ok" ELSE "empty"

IdleClean ==
    /\ achats_raw = <<>>
    /\ valid_client_ids = [given |-> FALSE, ids |-> {}]
    /\ achats_out = NoOut
    /\ clients_out = NoOut

NoResult == [status |-> "none"]

IdleGold ==
    /\ score_triple = <<0, 0, 0>>
    /\ values = <<>>
    /\ fact = <<>>
    /\ reference_date = 0
    /\ result = NoResult

IdleSilver ==
    /\ clients_raw = <<>>
    /\ csv_files = <<>>
    /\ file_idx = 0
    /\ summary = [d \in Datasets |-> "absent"]
    /\ silver = [d \in Datasets |-> Absent]

\* Raw rows of the two Bronze files the flow is exercised on.
FlowClientRows ==
    { [id_client |-> c, nom |-> "n", email |-> e, date_inscription |-> Now,
       pays |-> NA] :
        c \in {1, 2}, e \in {"a@x", "noat"} }

FlowAchatRows ==
    { [id_achat |-> a, id_client |-> c, date_achat |-> Now, montant |-> m,
       produit |-> "A"] :
        a \in {1, 2}, c \in {1, 3}, m \in {50, BAD} }

\* discover_bronze_files returns the listing of the bucket; the flow
\* takes the files in that order.
InitSilver ==
    /\ IdleRun
    /\ IdleMongo
    /\ IdleFact
    /\ clients_raw \in SeqsUpTo(FlowClientRows, MaxRows)
    /\ achats_raw \in SeqsUpTo(FlowAchatRows, MaxRows)
    /\ valid_client_ids = [given |-> FALSE, ids |-> {}]
    /\ achats_out = NoOut
    /\ clients_out = NoOut
    /\ csv_files \in {<<"clients.csv", "achats.csv">>, <<"achats.csv", "clients.csv">>}
    /\ file_idx = 1
    /\ summary = [d \in Datasets |-> "absent"]
    /\ silver = [d \in Datasets |-> Absent]
    /\ IdleGold
    /\ phase = "running"

CurrentFile == csv_files[file_idx]
DatasetName(f) == IF f = "clients.csv" THEN "clients" ELSE "achats"
RawOf(d) == IF d = "clients" THEN clients_raw ELSE achats_raw

InLoop == phase = "running" /\ file_idx <= Len(csv_files)

\* df_raw.empty: the file is skipped.
SkipFile ==
    /\ InLoop
    /\ RawOf(DatasetName(CurrentFile)) = <<>>
    /\ summary' = [summary EXCEPT ![DatasetName(CurrentFile)] = "skipped"]
    /\ file_idx' = file_idx + 1
    /\ UNCHANGED <<cleanVars, goldVars, runVars, mongoVars, factVars, clients_raw, csv_files, silver, phase>>

ProcessClients ==
    /\ InLoop
    /\ CurrentFile = "clients.csv"
    /\ clients_raw # <<>>
    /\ LET df_clean == clean_clients_data(clients_raw).rows
       IN IF ValidateClientsRaises(df_clean)
          THEN /\ phase' = "failed"
               /\ UNCHANGED <<summary, silver, file_idx>>
          ELSE /\ silver' = write_parquet_to_silver(silver, "clients", df_clean)
               /\ summary' = [summary EXCEPT !["clients"] = StatusOf(df_clean)]
               /\ file_idx' = file_idx + 1
               /\ UNCHANGED phase
    /\ UNCHANGED <<cleanVars, goldVars, runVars, mongoVars, factVars, clients_raw, csv_files>>

ProcessAchats ==
    /\ InLoop
    /\ CurrentFile = "achats.csv"
    /\ achats_raw # <<>>
    /\ LET ids == flow_valid_client_ids(summary, silver)
           res == clean_achats_data(achats_raw, ids)
       IN /\ valid_client_ids' = ids
          /\ achats_out' = res
          /\ IF res.status = "raised"
             THEN /\ phase' = "failed"
                  /\ UNCHANGED <<summary, silver, file_idx>>
             ELSE /\ silver' = write_parquet_to_silver(silver, "achats", res.df.rows)
                  /\ summary' = [summary EXCEPT !["achats"] = StatusOf(res.df.rows)]
                  /\ file_idx' = file_idx + 1
                  /\ UNCHANGED phase
    /\ UNCHANGED <<achats_raw, clients_out, goldVars, runVars, mongoVars, factVars, clients_raw, csv_files>>

FinishFlow ==
    /\ phase = "running"
    /\ file_idx > Len(csv_files)
    /\ phase' = "completed"
    /\ UNCHANGED <<cleanVars, silverVars, goldVars, runVars, mongoVars, factVars>>

NextSilver == SkipFile \/ ProcessClients \/ ProcessAchats \/ FinishFlow

SpecSilver == InitSilver /\ [][NextSilver]_vars

\* C2: after the flow completes on a bucket holding both files, every
\* purchase written to Silver has an id_client among the cleaned customer
\* ids written to Silver by that run, in whatever order the files came.
SilverClientIds ==
    {silver["clients"].rows[i].id_client : i \in 1..Len(silver["clients"].rows)}

C2_SilverReferentialIntegrity ==
    (phase = "completed" /\ summary["clients"] = "ok" /\ summary["achats"] = "ok") =>
        \A i \in 1..Len(silver["achats"].rows) :
            silver["achats"].rows[i].id_client \in SilverClientIds

\* ------------------------------------------------------ cleaner, alone
InitClean ==
    /\ IdleRun
    /\ IdleMongo
    /\ IdleFact
    /\ achats_raw \in SeqsUpTo(RawAchatRows, MaxRows)
    /\ valid_client_ids \in ValidIdChoices
    /\ achats_out = NoOut
    /\ clients_out = NoOut
    /\ IdleSilver
    /\ IdleGold
    /\ phase = "input"

CleanAchats ==
    /\ phase = "input"
    /\ achats_out' = clean_achats_data(achats_raw, valid_client_ids)
    /\ phase' = "cleaned"
    /\ UNCHANGED <<achats_raw, valid_client_ids, clients_out, silverVars, goldVars, runVars, mongoVars, factVars>>

NextClean == CleanAchats

SpecClean == InitClean /\ [][NextClean]_vars

\* C1: whenever clean_achats_data returns, its output has no two rows with
\* the same id_achat and every row has 0 < montant <= 10000.
OutRows == achats_out.df.rows

C1_UniqueAndBounded ==
    (phase = "cleaned" /\ achats_out.status = "ok") =>
        /\ \A i, j \in 1..Len(OutRows) :
               OutRows[i].id_achat = OutRows[j].id_achat => i = j
        /\ \A i \in 1..Len(OutRows) :
               OutRows[i].montant > 0 /\ OutRows[i].montant <= 10000

\* A raw table with a duplicated id_achat and an amount out of bounds was
\* cleaned and a row survived.
C1_Witness ==
    /\ phase = "cleaned"
    /\ achats_out.status = "ok"
    /\ Len(OutRows) = 1
    /\ Len(achats_raw) = 2
    /\ achats_raw[1].id_achat = achats_raw[2].id_achat
    /\ \E i \in 1..2 : achats_raw[i].montant \in {0, 10001}

\* C3: with valid_client_ids given, every output row's id_client is one of
\* them, and the referential-integrity step removes no row that reached it
\* with an id_client among them (a text id is not a member of numeric ids).
C3_ReferentialFilter ==
    (phase = "cleaned" /\ achats_out.status = "ok" /\ valid_client_ids.given) =>
        LET before == achats_before_ri(achats_raw)
            member(r) == "id_client" \notin before.obj
                            /\ r.id_client \in valid_client_ids.ids
            kept == {i \in 1..Len(before.rows) : member(before.rows[i])}
        IN /\ \A i \in 1..Len(OutRows) : OutRows[i].id_client \in valid_client_ids.ids
           /\ Len(OutRows) = Cardinality(kept)
           /\ \A i \in kept :
                  \E j \in 1..Len(OutRows) :
                      OutRows[j].id_achat = before.rows[i].id_achat

\* The step met a row to remove and a row to keep.
C3_Witness ==
    /\ phase = "cleaned"
    /\ achats_out.status = "ok"
    /\ valid_client_ids.given
    /\ Len(achats_before_ri(achats_raw).rows) = 2
    /\ Len(OutRows) = 1

\* --------------------------------------------------------- Gold: inputs
\* Largest number of rows of a fact table.
MaxFactRows == 3

\* -------------------------------------------------------- assign_segment
InitSegment ==
    /\ IdleRun
    /\ IdleMongo
    /\ IdleFact
    /\ IdleClean
    /\ IdleSilver
    /\ score_triple \in (1..5) \X (1..5) \X (1..5)
    /\ values = <<>>
    /\ fact = <<>>
    /\ reference_date = 0
    /\ result = NoResult
    /\ phase = "input"

AssignSegment ==
    /\ phase = "input"
    /\ result' = [status |-> "ok",
                  segment |-> assign_segment(score_triple[1], score_triple[2],
                                             score_triple[3])]
    /\ phase' = "segmented"
    /\ UNCHANGED <<cleanVars, silverVars, runVars, mongoVars, factVars, score_triple, values, fact, reference_date>>

NextSegment == AssignSegment

SpecSegment == InitSegment /\ [][NextSegment]_vars

\* C4: the segment of a score triple is that of the first rule it matches,
\* in the order Champions, Loyal, Potential Loyalist, New Customers,
\* At Risk, Lost, Hibernating, else Need Attention.
C4_SegmentTable ==
    phase = "segmented" =>
        LET r == score_triple[1]
            f == score_triple[2]
            m == score_triple[3]
            champions == r >= 4 /\ f >= 4 /\ m >= 4
            loyal == r >= 3 /\ f >= 3 /\ m >= 3
            potential == r >= 3 /\ f =< 2 /\ m >= 3
            newcust == r >= 4 /\ f =< 2 /\ m =< 2
            atrisk == r =< 2 /\ f >= 3 /\ m >= 3
            lost == r =< 2 /\ f =< 2 /\ m =< 2
            hibernating == r =< 2 /\ f >= 3 /\ m =< 2
            seg == result.segment
        IN /\ seg \in SegmentNames
           /\ (seg = "Champions") = champions
           /\ (seg = "Loyal") = (loyal /\ ~champions)
           /\ (seg = "Potential Loyalist") = potential
           /\ (seg = "New Customers") = newcust
           /\ (seg = "At Risk") = atrisk
           /\ (seg = "Lost") = lost
           /\ (seg = "Hibernating") = hibernating
           /\ (seg = "Need Attention") =
                  ~(champions \/ loyal \/ potential \/ newcust \/ atrisk
                      \/ lost \/ hibernating)
           /\ score_triple = <<5, 5, 5>> => seg = "Champions"
           /\ score_triple = <<1, 1, 1>> => seg = "Lost"
           /\ score_triple = <<5, 1, 1>> => seg = "New Customers"

\* (5,5,5), which matches both the Champions and the Loyal rule, was
\* segmented.
C4_Witness ==
    /\ phase = "segmented"
    /\ score_triple = <<5, 5, 5>>
    /\ result.segment = "Champions"

\* ------------------------------------------------------------------ RFM
\* Fact rows of the RFM runs: up to three customers, two purchase times,
\* two amounts.
RfmFactRows ==
    { [id_client |-> c, date_achat |-> t, montant |-> m] :
        c \in {1, 2, 3}, t \in {380, 399}, m \in {10, 30} }

InitRfm ==
    /\ IdleRun
    /\ IdleMongo
    /\ IdleFact
    /\ IdleClean
    /\ IdleSilver
    /\ score_triple = <<0, 0, 0>>
    /\ values = <<>>
    /\ fact \in SeqsUpTo(RfmFactRows, MaxFactRows)
    /\ reference_date \in {400, 401}
    /\ result = NoResult
    /\ phase = "input"

RunRfm ==
    /\ phase = "input"
    /\ result' = calculate_rfm_segmentation(fact, reference_date)
    /\ phase' = "rfm"
    /\ UNCHANGED <<cleanVars, silverVars, runVars, mongoVars, factVars, score_triple, values, fact, reference_date>>

NextRfm == RunRfm

SpecRfm == InitRfm /\ [][NextRfm]_vars

\* C5: on a non-empty fact table calculate_rfm_segmentation returns one row
\* per customer with R_score, F_score and M_score each in 1..5, by the
\* quantile cut or by the equal-width fallback.
C5_ScoresInRange ==
    (phase = "rfm" /\ fact # <<>>) =>
        /\ result.status = "ok"
        /\ {result.rows[i].id_client : i \in 1..Len(result.rows)}
               = KeysOf(fact, "id_client")
        /\ \A i \in 1..Len(result.rows) :
               /\ result.rows[i].R_score \in 1..5
               /\ result.rows[i].F_score \in 1..5
               /\ result.rows[i].M_score \in 1..5

\* One run scored a column by the quantile cut and another by the
\* fallback: recency has distinct edges, frequency is the same for all.
C5_Witness ==
    /\ phase = "rfm"
    /\ result.status = "ok"
    /\ Len(result.rows) = 2
    /\ ~QcutRaises(Column(result.rows, "recency"))
    /\ QcutRaises(Column(result.rows, "frequency"))
    /\ result.rows[1].frequency = result.rows[2].frequency

\* ------------------------------------------------------------ retention
\* Purchases 0, 30, 30.5, 31, 90, 91, 180 and 181 days before day 400.
RetentionFactRows ==
    { [id_client |-> c, date_achat |-> t, montant |-> 10] :
        c \in {1, 2},
        t \in {800, 800 - 60, 800 - 61, 800 - 62, 800 - 180, 800 - 182,
               800 - 360, 800 - 362} }

InitRetention ==
    /\ IdleRun
    /\ IdleMongo
    /\ IdleFact
    /\ IdleClean
    /\ IdleSilver
    /\ score_triple = <<0, 0, 0>>
    /\ values = <<>>
    /\ fact \in SeqsUpTo(RetentionFactRows, MaxFactRows)
    /\ reference_date \in {800, 801}
    /\ result = NoResult
    /\ phase = "input"

RunRetention ==
    /\ phase = "input"
    /\ result' = calculate_retention_metrics(fact, reference_date)
    /\ phase' = "retention"
    /\ UNCHANGED <<cleanVars, silverVars, runVars, mongoVars, factVars, score_triple, values, fact, reference_date>>

NextRetention == RunRetention

SpecRetention == InitRetention /\ [][NextRetention]_vars

\* C6: each customer's statut follows from d, the whole days between the
\* last purchase and the reference date: d <= 30 Actif, 31..90 À risque,
\* 91..180 Inactif, above 180 Churn.
C6_StatusBands ==
    phase = "retention" =>
        /\ {result.retention_detail[i].id_client :
                i \in 1..Len(result.retention_detail)} = KeysOf(fact, "id_client")
        /\ \A i \in 1..Len(result.retention_detail) :
               LET row == result.retention_detail[i]
                   last == CHOOSE t \in KeysOf(Group(fact, "id_client", row.id_client),
                                               "date_achat") :
                               \A j \in 1..Len(fact) :
                                   fact[j].id_client = row.id_client
                                       => fact[j].date_achat =< t
                   d == CHOOSE k \in -1..400 :
                            /\ k * TicksPerDay =< reference_date - last
                            /\ reference_date - last < (k + 1) * TicksPerDay
               IN /\ row.jours_inactivite = d
                  /\ (d =< 30) = (row.statut = "Actif")
                  /\ (31 =< d /\ d =< 90) = (row.statut = "À risque")
                  /\ (91 =< d /\ d =< 180) = (row.statut = "Inactif")
                  /\ (d > 180) = (row.statut = "Churn")

\* One customer inactive exactly 30 days and one exactly 31 days.
C6_Witness ==
    /\ phase = "retention"
    /\ Len(result.retention_detail) = 2
    /\ result.retention_detail[1].jours_inactivite = 30
    /\ result.retention_detail[1].statut = "Actif"
    /\ result.retention_detail[2].jours_inactivite = 31
    /\ result.retention_detail[2].statut = "À risque"

\* ------------------------------------------------------- monthly growth
\* Purchases on 2023-11-15, 2023-12-15, 2024-01-15 and 2024-11-15.
MonthlyFactRows ==
    { [id_client |-> 1, date_achat |-> t, montant |-> m] :
        t \in {636, 696, 758, 1368}, m \in {90, 100, 150} }

InitMonthly ==
    /\ IdleRun
    /\ IdleMongo
    /\ IdleFact
    /\ IdleClean
    /\ IdleSilver
    /\ score_triple = <<0, 0, 0>>
    /\ values = <<>>
    /\ fact \in SeqsUpTo(MonthlyFactRows, MaxFactRows)
    /\ reference_date = 0
    /\ result = NoResult
    /\ phase = "input"

RunAggregateByMonth ==
    /\ phase = "input"
    /\ result' = aggregate_by_month(fact)
    /\ phase' = "month"
    /\ UNCHANGED <<cleanVars, silverVars, runVars, mongoVars, factVars, score_triple, values, fact, reference_date>>

\* fact_achats['annee_mois'] = ... in calculate_growth_metrics: the column
\* is set on the table the caller passed, and added to it when absent.
assign_annee_mois(rows) ==
    [i \in 1..Len(rows) |->
        [c \in DOMAIN rows[i] \cup {"annee_mois"} |->
            IF c = "annee_mois" THEN PeriodM(rows[i].date_achat) ELSE rows[i][c]]]

RunGrowthMetrics ==
    /\ phase = "input"
    /\ result' = calculate_growth_metrics(fact)
    /\ fact' = assign_annee_mois(fact)
    /\ phase' = "growth"
    /\ UNCHANGED <<cleanVars, silverVars, runVars, mongoVars, factVars, score_triple, values, reference_date>>

NextMonthly == RunAggregateByMonth \/ RunGrowthMetrics

SpecMonthly == InitMonthly /\ [][NextMonthly]_vars

\* C7: the monthly rows come in chronological order whatever the order of
\* the fact rows, the first month's month-over-month rate is 0 and each
\* later month's rate is (its revenue - the previous month's revenue) /
\* the previous month's revenue * 100; revenues 100, 150, 90 give rates
\* 0, 50, -40.
MonthlyOut == IF phase = "month" THEN result.rows ELSE result.monthly_growth

Chrono(k) == k[1] * 12 + k[2]

Revenue(k) ==
    LET Keep(r) == PeriodM(r.date_achat) = k
    IN SeqSum(Column(SelectSeq(fact, Keep), "montant"))

C7_MonthOverMonth ==
    phase \in {"month", "growth"} =>
        LET out == MonthlyOut
            n == Len(out)
        IN /\ {out[i].annee_mois : i \in 1..n}
                  = {PeriodM(fact[j].date_achat) : j \in 1..Len(fact)}
           /\ \A i, j \in 1..n :
                  i < j => Chrono(out[i].annee_mois) < Chrono(out[j].annee_mois)
           /\ \A i \in 1..n : out[i].ca_total = Revenue(out[i].annee_mois)
           /\ n > 0 => out[1].taux_croissance_mom.num = 0
           /\ \A i \in 2..n :
                  LET prev == Revenue(out[i - 1].annee_mois)
                      rate == out[i].taux_croissance_mom
                  IN /\ rate.den # 0
                     /\ rate.num * prev = (out[i].ca_total - prev) * 100 * rate.den
           /\ (n = 3 /\ [i \in 1..3 |-> out[i].ca_total] = <<100, 150, 90>>) =>
                  /\ out[2].taux_croissance_mom.num = 50 * out[2].taux_croissance_mom.den
                  /\ out[3].taux_croissance_mom.num = -40 * out[3].taux_croissance_mom.den

\* Revenues 100, 150, 90 from fact rows given latest month first.
C7_Witness ==
    /\ phase = "month"
    /\ Len(fact) = 3
    /\ PeriodM(fact[1].date_achat) = <<2024, 1>>
    /\ PeriodM(fact[2].date_achat) = <<2023, 11>>
    /\ [i \in 1..Len(result.rows) |-> result.rows[i].ca_total] = <<100, 150, 90>>
    /\ result.rows[3].taux_croissance_mom.num = -40 * result.rows[3].taux_croissance_mom.den

\* ------------------------------------------------------- cohorts
\* Sign-ups on 2023-01-10 or 2023-12-20 or unknown; purchases on
\* 2023-01-20, 2023-04-05, 2024-02-10 or with a missing date.
CohortFactRows ==
    { [id_client |-> c, date_inscription |-> s, date_achat |-> t, montant |-> 10] :
        c \in {1, 2}, s \in {18, 706, NULL}, t \in {38, 188, 810, NULL} }

\* The sign-up date comes from the left merge with the customers, so it is
\* the same on every row of one customer.
InitCohort ==
    /\ IdleRun
    /\ IdleMongo
    /\ IdleFact
    /\ IdleClean
    /\ IdleSilver
    /\ score_triple = <<0, 0, 0>>
    /\ values = <<>>
    /\ fact \in SeqsUpTo(CohortFactRows, MaxFactRows)
    /\ \A i, j \in 1..Len(fact) :
           fact[i].id_client = fact[j].id_client
               => fact[i].date_inscription = fact[j].date_inscription
    /\ reference_date = 0
    /\ result = NoResult
    /\ phase = "input"

RunCohort ==
    /\ phase = "input"
    /\ result' = calculate_cohort_analysis(fact)
    /\ phase' = "cohort"
    /\ UNCHANGED <<cleanVars, silverVars, runVars, mongoVars, factVars, score_triple, values, fact, reference_date>>

NextCohort == RunCohort

SpecCohort == InitCohort /\ [][NextCohort]_vars

\* C8: every purchase of a customer with a sign-up date falls in exactly
\* one (cohort month, purchase month) row, whose age_cohorte_mois is
\* (purchase year * 12 + purchase month) - (sign-up year * 12 + sign-up
\* month); sign-up in 2023-01 and purchase in 2023-04 give 3.
C8_CohortAge ==
    phase = "cohort" =>
        LET out == result.cohort_ca
        IN /\ \A j \in 1..Len(fact) :
                  (fact[j].date_inscription # NULL /\ fact[j].date_achat # NULL) =>
                      \E i \in 1..Len(out) :
                          /\ out[i].cohorte_mois = PeriodM(fact[j].date_inscription)
                          /\ out[i].mois_achat = PeriodM(fact[j].date_achat)
                          /\ out[i].age_cohorte_mois =
                                 Chrono(PeriodM(fact[j].date_achat))
                                     - Chrono(PeriodM(fact[j].date_inscription))
                          /\ \A k \in 1..Len(out) :
                                 (out[k].cohorte_mois = out[i].cohorte_mois
                                      /\ out[k].mois_achat = out[i].mois_achat) => k = i
           /\ \A i \in 1..Len(out) :
                  \E j \in 1..Len(fact) :
                      /\ fact[j].date_inscription # NULL
                      /\ out[i].cohorte_mois = PeriodM(fact[j].date_inscription)
                      /\ out[i].mois_achat = PeriodOrNaT(fact[j].date_achat)
           /\ \A i \in 1..Len(out) :
                  (out[i].cohorte_mois = <<2023, 1>> /\ out[i].mois_achat = <<2023, 4>>)
                      => out[i].age_cohorte_mois = 3

\* A 2023-01 sign-up with purchases in 2023-04 and 2024-02: ages 3 and 13.
C8_Witness ==
    /\ phase = "cohort"
    /\ Len(result.cohort_ca) = 2
    /\ result.cohort_ca[1].cohorte_mois = <<2023, 1>>
    /\ result.cohort_ca[1].mois_achat = <<2023, 4>>
    /\ result.cohort_ca[1].age_cohorte_mois = 3
    /\ result.cohort_ca[2].mois_achat = <<2024, 2>>
    /\ result.cohort_ca[2].age_cohorte_mois = 13

\* ------------------------------------------------------- Gini index
MaxValues == 4

GiniValues == {0, 1, 2, 5}

InitGini ==
    /\ IdleRun
    /\ IdleMongo
    /\ IdleFact
    /\ IdleClean
    /\ IdleSilver
    /\ score_triple = <<0, 0, 0>>
    /\ values \in SeqsUpTo(GiniValues, MaxValues)
    /\ fact = <<>>
    /\ reference_date = 0
    /\ result = NoResult
    /\ phase = "input"

RunGini ==
    /\ phase = "input"
    /\ result' = calculate_gini(values)
    /\ phase' = "gini"
    /\ UNCHANGED <<cleanVars, silverVars, runVars, mongoVars, factVars, score_triple, values, fact, reference_date>>

NextGini == RunGini

SpecGini == InitGini /\ [][NextGini]_vars

\* C9: for n >= 1 values with a positive sum the index is
\* 2 * sum(rank_i * value_i) / (n * sum) - (n + 1) / n for ranks 1..n that
\* follow the ascending order of the values; it is 0 when the values are
\* equal and positive, and (n - 1) / n when one value is positive and the
\* others are zero.
C9_Gini ==
    (phase = "gini" /\ Len(values) >= 1 /\ SeqSum(values) > 0) =>
        LET n == Len(values)
            total == SeqSum(values)
            Rankings == {rk \in [1..n -> 1..n] :
                            /\ \A i, j \in 1..n : i # j => rk[i] # rk[j]
                            /\ \A i, j \in 1..n : values[i] < values[j] => rk[i] < rk[j]}
            positives == {i \in 1..n : values[i] > 0}
        IN /\ result.status = "ok"
           /\ result.den > 0
           /\ \A rk \in Rankings :
                  result.num * (n * total)
                      = (2 * SeqSum([i \in 1..n |-> rk[i] * values[i]]) - (n + 1) * total)
                            * result.den
           /\ (\A i \in 1..n : values[i] = values[1]) => result.num = 0
           /\ Cardinality(positives) = 1 => result.num * n = (n - 1) * result.den

\* One holder of everything among three: the index is 2/3.
C9_Witness ==
    /\ phase = "gini"
    /\ values = <<0, 5, 0>>
    /\ result.status = "ok"
    /\ result.num * 3 = 2 * result.den

\* ------------------------------------------------------- every aggregator
\* Purchases of customers 1 and 2 and of customer 3, who is not in
\* clients_df, on Friday 2023-01-20 at 00:00 and on Wednesday 2023-04-05
\* at 12:00.
PurchaseChoices ==
    { [id_client |-> c, date_achat |-> p[1], montant |-> p[2], produit |-> p[3]] :
        c \in {1, 2, 3}, p \in {<<38, 10, "A">>, <<189, 30, "B">>} }

\* Silver purchases carry their own, unique id_achat.
WithIds(achats) ==
    [i \in 1..Len(achats) |->
        [id_achat |-> i,
         id_client |-> achats[i].id_client,
         date_achat |-> achats[i].date_achat,
         montant |-> achats[i].montant,
         produit |-> achats[i].produit]]

\* The Gold flow calls the aggregators without reference_date, which then
\* is the current time: here 2024-02-15.
InitAggregators ==
    /\ IdleRun
    /\ IdleMongo
    /\ IdleFact
    /\ IdleClean
    /\ IdleSilver
    /\ score_triple = <<0, 0, 0>>
    /\ values = <<>>
    /\ \E achats \in SeqsUpTo(PurchaseChoices, MaxFactRows) :
           fact = create_fact_achats(WithIds(achats), clients_df)
    /\ reference_date = 820
    /\ result = NoResult
    /\ phase = "input"

RunAggregateByDay ==
    /\ phase = "input"
    /\ result' = aggregate_by_day(fact)
    /\ phase' = "day"
    /\ UNCHANGED <<cleanVars, silverVars, runVars, mongoVars, factVars, score_triple, values, fact, reference_date>>

RunAggregateByWeek ==
    /\ phase = "input"
    /\ result' = aggregate_by_week(fact)
    /\ phase' = "week"
    /\ UNCHANGED <<cleanVars, silverVars, runVars, mongoVars, factVars, score_triple, values, fact, reference_date>>

RunAggregateByHour ==
    /\ phase = "input"
    /\ result' = aggregate_by_hour(fact)
    /\ phase' = "hour"
    /\ UNCHANGED <<cleanVars, silverVars, runVars, mongoVars, factVars, score_triple, values, fact, reference_date>>

RunAggregateByCountry ==
    /\ phase = "input"
    /\ result' = aggregate_by_country(fact)
    /\ phase' = "country"
    /\ UNCHANGED <<cleanVars, silverVars, runVars, mongoVars, factVars, score_triple, values, fact, reference_date>>

RunClv ==
    /\ phase = "input"
    /\ result' = calculate_clv_metrics(fact, clients_df)
    /\ phase' = "clv"
    /\ UNCHANGED <<cleanVars, silverVars, runVars, mongoVars, factVars, score_triple, values, fact, reference_date>>

RunProductMetrics ==
    /\ phase = "input"
    /\ result' = calculate_product_metrics(fact)
    /\ phase' = "product"
    /\ UNCHANGED <<cleanVars, silverVars, runVars, mongoVars, factVars, score_triple, values, fact, reference_date>>

RunSeasonality ==
    /\ phase = "input"
    /\ result' = calculate_seasonality(fact)
    /\ phase' = "seasonality"
    /\ UNCHANGED <<cleanVars, silverVars, runVars, mongoVars, factVars, score_triple, values, fact, reference_date>>

RunStatisticalDistributions ==
    /\ phase = "input"
    /\ result' = calculate_statistical_distributions(fact)
    /\ phase' = "distributions"
    /\ UNCHANGED <<cleanVars, silverVars, runVars, mongoVars, factVars, score_triple, values, fact, reference_date>>

RunConcentration ==
    /\ phase = "input"
    /\ result' = calculate_concentration_metrics(fact)
    /\ phase' = "concentration"
    /\ UNCHANGED <<cleanVars, silverVars, runVars, mongoVars, factVars, score_triple, values, fact, reference_date>>

RunGlobalKpis ==
    /\ phase = "input"
    /\ result' = calculate_global_kpis(fact, clients_df, reference_date)
    /\ phase' = "kpis"
    /\ UNCHANGED <<cleanVars, silverVars, runVars, mongoVars, factVars, score_triple, values, fact, reference_date>>

NextAggregators ==
    \/ RunAggregateByDay
    \/ RunAggregateByWeek
    \/ RunAggregateByMonth
    \/ RunAggregateByHour
    \/ RunAggregateByCountry
    \/ RunRfm
    \/ RunClv
    \/ RunRetention
    \/ RunProductMetrics
    \/ RunCohort
    \/ RunSeasonality
    \/ RunStatisticalDistributions
    \/ RunConcentration
    \/ RunGlobalKpis
    \/ RunGrowthMetrics

SpecAggregators == InitAggregators /\ [][NextAggregators]_vars

\* C10: an aggregator given a fact table with the expected columns and no
\* rows returns its tables; it does not raise.
C10_EmptyInputNeverRaises ==
    (phase # "input" /\ Len(fact) = 0) => result.status # "raised"

\* ------------------------------------------------------- fact table
\* Customer tables; two rows may bear the same id_client.
FactClientRows ==
    { [id_client |-> c, pays |-> p, date_inscription |-> 18] :
        c \in {1, 2}, p \in {"FR", "DE"} }

InitFact ==
    /\ IdleRun
    /\ IdleMongo
    /\ IdleClean
    /\ IdleSilver
    /\ IdleGold
    /\ clients_arg \in SeqsUpTo(FactClientRows, MaxRows)
    /\ \E as \in SeqsUpTo(PurchaseChoices, MaxFactRows) : achats_arg = WithIds(as)
    /\ phase = "input"

\* create_fact_achats(achats_df, clients_df) is called on the two tables.
RunCreateFactAchats ==
    /\ phase = "input"
    /\ fact' = create_fact_achats(achats_arg, clients_arg)
    /\ phase' = "fact"
    /\ UNCHANGED <<cleanVars, silverVars, runVars, mongoVars, factVars, score_triple, values,
                   reference_date, result>>

NextFact == RunCreateFactAchats

SpecFact == InitFact /\ [][NextFact]_vars

\* C12: when no two customers share an id_client the fact table has one
\* row per purchase, in the order of the purchases; a purchase whose
\* id_client is not in the customer table is kept, with missing pays,
\* date_inscription and anciennete_jours.
C12_LeftJoin ==
    phase = "fact" =>
        LET Orphan(a) == \A j \in 1..Len(clients_arg) :
                             clients_arg[j].id_client # a.id_client
        IN /\ (\A i, j \in 1..Len(clients_arg) :
                   clients_arg[i].id_client = clients_arg[j].id_client => i = j)
               => /\ Len(fact) = Len(achats_arg)
                  /\ \A i \in 1..Len(fact) :
                         /\ fact[i].id_achat = achats_arg[i].id_achat
                         /\ fact[i].id_client = achats_arg[i].id_client
                         /\ fact[i].montant = achats_arg[i].montant
                         /\ ~Orphan(achats_arg[i]) =>
                                \E j \in 1..Len(clients_arg) :
                                    /\ clients_arg[j].id_client = fact[i].id_client
                                    /\ clients_arg[j].pays = fact[i].pays
                                    /\ clients_arg[j].date_inscription
                                           = fact[i].date_inscription
           /\ \A k \in 1..Len(achats_arg) :
                  Orphan(achats_arg[k]) =>
                      \E i \in 1..Len(fact) :
                          /\ fact[i].id_achat = achats_arg[k].id_achat
                          /\ fact[i].pays = NA
                          /\ fact[i].date_inscription = NULL
                          /\ fact[i].anciennete_jours = NULL

\* A purchase of the unknown customer 3 followed by one of customer 1.
C12_Witness ==
    /\ phase = "fact"
    /\ Len(clients_arg) = 2
    /\ clients_arg[1].id_client # clients_arg[2].id_client
    /\ Len(fact) = 2
    /\ fact[1].id_client = 3 /\ fact[1].pays = NA /\ fact[1].anciennete_jours = NULL
    /\ fact[2].id_client = 1 /\ fact[2].pays # NA /\ fact[2].anciennete_jours = 10

\* ------------------------------------------------------- week keys
\* Purchases on Sunday 2023-01-01, Tuesday 2023-01-03, Saturday
\* 2023-12-30, Monday 2024-01-01 and Monday 2024-12-30.
WeekPurchaseChoices ==
    { [id_client |-> 1, date_achat |-> t, montant |-> 10, produit |-> "A"] :
        t \in {0, 4, 726, 730, 1458} }

InitWeek ==
    /\ IdleRun
    /\ IdleMongo
    /\ IdleClean
    /\ IdleSilver
    /\ IdleGold
    /\ clients_arg = clients_df
    /\ \E as \in SeqsUpTo(WeekPurchaseChoices, MaxFactRows) : achats_arg = WithIds(as)
    /\ phase = "input"

SpecWeek == InitWeek /\ [][NextFact]_vars

\* The Monday that opens the ISO week of a timestamp, and the ISO year:
\* the calendar year of that week's Thursday.
IsoMonday(t) == Days(t) - DayOfWeek(t)

IsoYear(t) ==
    LET thursday == IsoMonday(t) + 3
    IN IF thursday < 0 THEN 2022
       ELSE IF thursday < 365 THEN 2023
       ELSE IF thursday < 731 THEN 2024
       ELSE 2025

\* C13: the annee_semaine key of a purchase carries the ISO year of its
\* date, so two purchases have the same key exactly when their dates are
\* in the same ISO week.
C13_IsoWeekKey ==
    phase = "fact" =>
        /\ \A i \in 1..Len(fact) :
               fact[i].annee_semaine[1] = IsoYear(fact[i].date_achat)
        /\ \A i, j \in 1..Len(fact) :
               (fact[i].annee_semaine = fact[j].annee_semaine)
                   = (IsoMonday(fact[i].date_achat) = IsoMonday(fact[j].date_achat))

\* ------------------------------------------------------- empty datasets
\* C14: the Silver flow does not stop on a dataset whose cleaned table has
\* no rows; it goes on to record the dataset's report.  (A flow that
\* failed stays at the file it failed on.)
C14_EmptyTableIsReported ==
    (phase = "failed" /\ file_idx <= Len(csv_files)) =>
        /\ CurrentFile = "clients.csv" => clean_clients_data(clients_raw).rows # <<>>
        /\ CurrentFile = "achats.csv" =>
               ~(achats_out.status = "ok" /\ achats_out.df.rows = <<>>)

\* ------------------------------------------------- the two cleaners
\* Raw rows the two cleaners are exercised on: timestamps before, at and
\* after the run time, and one that does not parse.
DatedAchatRows ==
    { [id_achat |-> a, id_client |-> 1, date_achat |-> t, montant |-> 50,
       produit |-> "A"] :
        a \in {1, 2}, t \in {Now - 1, Now, Now + 1, BAD} }

DatedClientRows ==
    { [id_client |-> c, nom |-> "n", email |-> e, date_inscription |-> t,
       pays |-> "FR"] :
        c \in {1, 2}, e \in {"a@x", "b@x", "noat"},
        t \in {Now - 1, Now, Now + 1, BAD} }

InitCleaners ==
    /\ IdleRun
    /\ IdleMongo
    /\ IdleFact
    /\ \/ achats_raw \in SeqsUpTo(DatedAchatRows, MaxRows) /\ clients_raw = <<>>
       \/ achats_raw = <<>> /\ clients_raw \in SeqsUpTo(DatedClientRows, MaxRows)
    /\ valid_client_ids = [given |-> FALSE, ids |-> {}]
    /\ achats_out = NoOut
    /\ clients_out = NoOut
    /\ csv_files = <<>>
    /\ file_idx = 0
    /\ summary = [d \in Datasets |-> "absent"]
    /\ silver = [d \in Datasets |-> Absent]
    /\ IdleGold
    /\ phase = "input"

CleanClients ==
    /\ phase = "input"
    /\ clients_out' = [status |-> "ok", df |-> clean_clients_data(clients_raw)]
    /\ phase' = "cleaned_clients"
    /\ UNCHANGED <<achats_raw, valid_client_ids, achats_out, silverVars, goldVars,
                   runVars, mongoVars, factVars>>

NextCleaners == CleanAchats \/ CleanClients

SpecCleaners == InitCleaners /\ [][NextCleaners]_vars

ClientsOutRows == clients_out.df.rows

\* The raw rows that no step other than the temporal-validity step would
\* remove, had their timestamp been at the run time.
AchatReachesDates(i) ==
    /\ \A j \in 1..(i-1) : achats_raw[j].id_achat # achats_raw[i].id_achat
    /\ achats_raw[i].montant > 0 /\ achats_raw[i].montant <= 10000
    /\ achats_raw[i].id_client # NULL

ClientReachesDates(i) ==
    LET firstId(k) == \A j \in 1..(k-1) : clients_raw[j].id_client # clients_raw[k].id_client
    IN /\ firstId(i)
       /\ \A j \in 1..(i-1) : firstId(j) => clients_raw[j].email # clients_raw[i].email
       /\ HasAt(clients_raw[i].email)

OnTime(t) == t # NULL /\ t # BAD /\ t <= Now

\* C15: no row of a cleaner's output has a timestamp later than the run
\* time, and a raw row whose timestamp is at or before the run time, and
\* which no other step removes, is in the output.
C15_TemporalValidity ==
    /\ (phase = "cleaned" /\ achats_out.status = "ok") =>
           /\ \A k \in 1..Len(OutRows) : OutRows[k].date_achat <= Now
           /\ \A i \in 1..Len(achats_raw) :
                  (AchatReachesDates(i) /\ OnTime(achats_raw[i].date_achat)) =>
                      \E k \in 1..Len(OutRows) : OutRows[k] = achats_raw[i]
    /\ phase = "cleaned_clients" =>
           /\ \A k \in 1..Len(ClientsOutRows) :
                  ClientsOutRows[k].date_inscription <= Now
           /\ \A i \in 1..Len(clients_raw) :
                  (ClientReachesDates(i) /\ OnTime(clients_raw[i].date_inscription)) =>
                      \E k \in 1..Len(ClientsOutRows) : ClientsOutRows[k] = clients_raw[i]

\* A cleaner met a row dated after the run time, which it dropped, and a
\* row dated exactly at the run time, which it kept.
C15_Witness ==
    /\ phase = "cleaned_clients"
    /\ Len(clients_raw) = 2
    /\ clients_raw[1].date_inscription = Now + 1
    /\ clients_raw[2].date_inscription = Now
    /\ ClientsOutRows = <<clients_raw[2]>>

\* --------------------------------------------------------- type coercion
\* C16: a cell that does not convert to its column's type counts as a
\* missing value and the other cells of the column are converted, so
\* clean_achats_data returns, and a raw row with convertible cells that no
\* cleaning rule removes is in its output.
C16_FailedConversionIsMissing ==
    phase = "cleaned" =>
        /\ achats_out.status = "ok"
        /\ \A i \in 1..Len(achats_raw) :
               ( /\ AchatReachesDates(i)
                 /\ OnTime(achats_raw[i].date_achat)
                 /\ achats_raw[i].id_client # BAD
                 /\ valid_client_ids.given =>
                        achats_raw[i].id_client \in valid_client_ids.ids ) =>
                   \E k \in 1..Len(OutRows) :
                       OutRows[k].id_achat = achats_raw[i].id_achat

\* --------------------------------------------------------- deduplication
\* The first raw row bearing an id_client, and the first of those rows
\* bearing an email.
FirstOfId(i) ==
    \A j \in 1..(i-1) : clients_raw[j].id_client # clients_raw[i].id_client

FirstOfEmail(i) ==
    \A j \in 1..(i-1) : FirstOfId(j) => clients_raw[j].email # clients_raw[i].email

\* C17: every row of clean_clients_data's output is the first raw row
\* bearing its id_client and, among the rows that survive that pass, the
\* first bearing its email; so no two output rows share an id_client or an
\* email.
C17_FirstOccurrenceWins ==
    phase = "cleaned_clients" =>
        /\ \A k, l \in 1..Len(ClientsOutRows) :
               (\/ ClientsOutRows[k].id_client = ClientsOutRows[l].id_client
                \/ ClientsOutRows[k].email = ClientsOutRows[l].email) => k = l
        /\ \A k \in 1..Len(ClientsOutRows) :
               \E i \in 1..Len(clients_raw) :
                   /\ clients_raw[i] = ClientsOutRows[k]
                   /\ FirstOfId(i)
                   /\ FirstOfEmail(i)
                   /\ \A j \in 1..Len(clients_raw) :
                          (FirstOfId(j) /\ clients_raw[j].id_client = clients_raw[i].id_client)
                              => j = i

\* Two different raw rows bore the same id_client and the first one is the
\* output.
C17_Witness ==
    /\ phase = "cleaned_clients"
    /\ Len(clients_raw) = 2
    /\ clients_raw[1].id_client = clients_raw[2].id_client
    /\ clients_raw[1] # clients_raw[2]
    /\ OnTime(clients_raw[2].date_inscription)
    /\ HasAt(clients_raw[2].email)
    /\ ClientsOutRows = <<clients_raw[1]>>

\* ------------------------------------------------------- upstream tables
\* Cleaned purchases of 2023-11-15, 2023-12-15 and 2024-01-15.
UpstreamAchatRows ==
    { [id_achat |-> a, id_client |-> c, date_achat |-> t, montant |-> 50,
       produit |-> "A"] :
        a \in {1, 2}, c \in {1, 2}, t \in {636, 696, 758} }

\* The caller holds a purchases table and hands a transformation either
\* that table or the fact table built from it.
InitUpstream ==
    /\ IdleMongo
    /\ IdleFact
    /\ clock = 800
    /\ run_outputs = <<>>
    /\ achats_raw \in SeqsUpTo(UpstreamAchatRows, MaxRows)
    /\ valid_client_ids = [given |-> FALSE, ids |-> {}]
    /\ achats_out = NoOut
    /\ clients_out = NoOut
    /\ IdleSilver
    /\ score_triple = <<0, 0, 0>>
    /\ values = <<>>
    /\ fact \in {achats_raw, create_fact_achats(achats_raw, clients_df)}
    /\ reference_date = 800
    /\ result = NoResult
    /\ phase = "input"

NextUpstream ==
    \/ CleanAchats
    \/ RunRfm
    \/ RunRetention
    \/ RunGrowthMetrics

SpecUpstream == InitUpstream /\ [][NextUpstream]_vars

\* C18: a transformation leaves the table it was handed as it was: same
\* columns, same values.
C18_InputsUntouched == [][achats_raw' = achats_raw /\ fact' = fact]_vars

\* ---------------------------------------------------------- enrichment
\* The enrichment sees a table as its number of rows and its columns in
\* order; a column has a name (the source column followed by the suffixes
\* of the features derived from it), a dtype kind, and values that are data,
\* a constant default, or the output of a fitted model.
MlColumnOrder ==
    <<"id_achat", "id_client", "date_achat", "montant", "produit",
      "nom", "email", "date_inscription", "pays">>

\* The dtype family of a column.  Whether a date column read back from a
\* parquet file is datetime64[ns] depends on the installed pandas and
\* pyarrow: date_cols is the set of columns that are.
MlKind(c, date_cols) ==
    IF c \in {"id_achat", "id_client", "montant"} THEN "numeric"
    ELSE IF c \in {"date_achat", "date_inscription"}
    THEN (IF c \in date_cols THEN "datetime" ELSE "other")
    ELSE "text"

MlColumn(name, kind, value) == [name |-> name, kind |-> kind, value |-> value]

MlFrame(n, cols) == [n |-> n, cols |-> cols]

\* select_dtypes(include=[np.number]).columns
numeric_cols(cols) == LET Keep(c) == c.kind = "numeric" IN SelectSeq(cols, Keep)

\* 'id' in col.lower()
HasId(name) == \E k \in 1..Len(name) : name[k] \in {"id_client", "id_achat"}

\* dt.day
DayOfMonth(t) ==
    LET k == MonthIndex(Days(t), 1)
    IN Days(t) - SeqSum(SubSeq(MonthLengths, 1, k - 1)) + 1

\* The columns extract_features_auto derives from a datetime64[ns] column,
\* in the order it adds them.
DateFeatures(col) ==
    IF col = "date_achat"
    THEN <<"year", "month", "day", "dayofweek", "is_weekend">>
    ELSE <<"year", "month", "day", "dayofweek", "is_weekend", "days_since">>

\* One cell of a derived numeric column; now is pd.Timestamp.now().
DateFeatureValue(feature, t, now) ==
    CASE feature = "year" -> YearOf(t)
      [] feature = "month" -> PeriodM(t)[2]
      [] feature = "day" -> DayOfMonth(t)
      [] feature = "dayofweek" -> DayOfWeek(t)
      [] feature = "days_since" -> Days(now - t)

RECURSIVE FlattenSeq(_)
FlattenSeq(ss) == IF ss = <<>> THEN <<>> ELSE Head(ss) \o FlattenSeq(Tail(ss))

\* extract_features_auto on a non-empty table with at most 10 distinct
\* values per column (no binning, no top categories).  Series.std() of a
\* single row is NaN, and NaN > 0 is False.
extract_features_auto(rows, date_cols, now) ==
    LET present(c) == c \in DOMAIN rows[1]
        cols == SelectSeq(MlColumnOrder, present)
        isNumeric(c) == MlKind(c, date_cols) = "numeric"
        isText(c) == MlKind(c, date_cols) = "text"
        isDate(c) == MlKind(c, date_cols) = "datetime"
        dates == SelectSeq(cols, isDate)
        derived == FlattenSeq([d \in 1..Len(dates) |->
                       [k \in 1..Len(DateFeatures(dates[d])) |->
                           [col |-> dates[d], feature |-> DateFeatures(dates[d])[k]]]])
        isCount(f) == f.feature # "is_weekend"
        base_numeric == SelectSeq(cols, isNumeric)
        derived_numeric == SelectSeq(derived, isCount)
        \* numeric_cols of step 2: names and cells
        numeric ==
            [i \in 1..Len(base_numeric) |->
                [name |-> <<base_numeric[i]>>,
                 cells |-> [r \in 1..Len(rows) |-> rows[r][base_numeric[i]]]]]
            \o [i \in 1..Len(derived_numeric) |->
                [name |-> <<derived_numeric[i].col, derived_numeric[i].feature>>,
                 cells |-> [r \in 1..Len(rows) |->
                     DateFeatureValue(derived_numeric[i].feature,
                                      rows[r][derived_numeric[i].col], now)]]]
        text == SelectSeq(cols, isText)
        stdPositive(c) == \E i, j \in 1..Len(rows) : c.cells[i] # c.cells[j]
        scaled == SelectSeq(numeric, stdPositive)
        base == [i \in 1..Len(cols) |->
                    MlColumn(<<cols[i]>>, MlKind(cols[i], date_cols), "data")]
        date_features ==
            [i \in 1..Len(derived) |->
                MlColumn(<<derived[i].col, derived[i].feature>>,
                         IF derived[i].feature = "is_weekend" THEN "bool" ELSE "numeric",
                         "data")]
        normalized == [i \in 1..Len(scaled) |->
                          MlColumn(Append(scaled[i].name, "normalized"), "numeric", "data")]
        frequency == [i \in 1..Len(text) |->
                         MlColumn(<<text[i], "frequency">>, "numeric", "data")]
        interaction ==
            IF Len(numeric) >= 2 /\ \E i \in 1..Len(rows) : numeric[2].cells[i] # 0
            THEN <<MlColumn(numeric[1].name \o <<"div">> \o numeric[2].name,
                            "numeric", "data")>>
            ELSE <<>>
        features == base \o date_features \o normalized \o frequency \o interaction
        isId(c) == HasId(c.name)
        id_cols == SelectSeq(features, isId)
        counts == [i \in 1..Len(id_cols) |->
                      MlColumn(Append(id_cols[i].name, "count"), "numeric", "data")]
    IN MlFrame(Len(rows), features \o counts)

\* detect_anomalies_ml on a non-empty table.
detect_anomalies_ml(f) ==
    IF Len(numeric_cols(f.cols)) < 2
    THEN MlFrame(f.n, Append(f.cols, MlColumn(<<"is_anomaly_ml">>, "bool", "default")))
    ELSE MlFrame(f.n, f.cols \o <<MlColumn(<<"is_anomaly_ml">>, "bool", "model"),
                                  MlColumn(<<"anomaly_score">>, "numeric", "model")>>)

\* int(np.sqrt(n / 2))
IntSqrtHalf(n) == CHOOSE k \in 0..n : 2 * k * k <= n /\ 2 * (k + 1) * (k + 1) > n

Max2(a, b) == IF a >= b THEN a ELSE b
Min2(a, b) == IF a <= b THEN a ELSE b

\* n_clusters = max(2, int(np.sqrt(len(df) / 2))), then min(n_clusters, 10)
auto_n_clusters(n) == Min2(Max2(2, IntSqrtHalf(n)), 10)

\* PCA(n_components=10) raises unless 10 <= min(n_samples, n_features);
\* KMeans raises unless n_samples >= n_clusters.
PcaRaises(n, k) == k > 10 /\ Min2(n, k) < 10
KMeansRaises(n, n_clusters) == n < n_clusters

\* cluster_data on a non-empty table: the outcome, the cluster count handed
\* to K-Means (0 when K-Means is not reached) and the table returned.
cluster_data(f) ==
    LET k == Len(numeric_cols(f.cols))
    IN IF k < 2
       THEN [status |-> "ok", n_clusters |-> 0,
             df |-> MlFrame(f.n, Append(f.cols, MlColumn(<<"ml_cluster">>, "numeric", "default")))]
       ELSE IF PcaRaises(f.n, k)
       THEN [status |-> "raised", n_clusters |-> 0, df |-> f]
       ELSE IF KMeansRaises(f.n, auto_n_clusters(f.n))
       THEN [status |-> "raised", n_clusters |-> auto_n_clusters(f.n), df |-> f]
       ELSE [status |-> "ok", n_clusters |-> auto_n_clusters(f.n),
             df |-> MlFrame(f.n, f.cols \o <<MlColumn(<<"ml_cluster">>, "numeric", "model"),
                                           MlColumn(<<"ml_cluster_distance">>, "numeric", "model")>>)]

\* predict_scores on a non-empty table.
predict_scores(f) ==
    IF Len(numeric_cols(f.cols)) = 0
    THEN MlFrame(f.n, Append(f.cols, MlColumn(<<"ml_score">>, "numeric", "default")))
    ELSE MlFrame(f.n, Append(f.cols, MlColumn(<<"ml_score">>, "numeric", "model")))

\* The rows of the enriched table whose columns are cols: each row of the
\* source table with, under ml, the cells of the columns added to it, in
\* the order of the columns.  A z-score (x - mean) / std is kept as
\* centered = n * x - sum and spread = n * sum of squares - sum squared,
\* the ratio col1 / (col2 + 1e-6) as the pair of its cells; the outputs of
\* IsolationForest and KMeans (random_state=42) and ml_score are functions
\* of the numeric columns of the same table and are kept as "model".
\* value_counts is taken on columns without missing cells.
MlRows(rows, cols, now) ==
    LET n == Len(rows)
        Count(cells) ==
            [r \in 1..n |-> Cardinality({q \in 1..n : cells[q] = cells[r]})]
        RECURSIVE Cells(_)
        Cells(name) ==
            LET last == name[Len(name)]
                front == SubSeq(name, 1, Len(name) - 1)
            IN IF Len(name) = 1 THEN [r \in 1..n |-> rows[r][name[1]]]
               ELSE IF last \in {"count", "frequency"} THEN Count(Cells(front))
               ELSE IF last = "normalized"
               THEN LET x == Cells(front)
                        sum == SeqSum(x)
                        squares == SeqSum([r \in 1..n |-> x[r] * x[r]])
                    IN [r \in 1..n |-> [centered |-> n * x[r] - sum,
                                        spread |-> n * squares - sum * sum]]
               ELSE IF name[2] = "div"
               THEN LET x == Cells(<<name[1]>>)
                        y == Cells(SubSeq(name, 3, Len(name)))
                    IN [r \in 1..n |-> [num |-> x[r], den |-> y[r]]]
               ELSE IF last = "is_weekend"
               THEN [r \in 1..n |-> DayOfWeek(rows[r][name[1]]) \in {5, 6}]
               ELSE [r \in 1..n |-> DateFeatureValue(last, rows[r][name[1]], now)]
        IsAdded(c) == Len(c.name) > 1 \/ c.value # "data"
        added == SelectSeq(cols, IsAdded)
        cells == [k \in 1..Len(added) |->
                     IF added[k].value = "data" THEN Cells(added[k].name)
                     ELSE [r \in 1..n |-> added[k].value]]
    IN [r \in 1..n |->
           [c \in DOMAIN rows[r] \cup {"ml"} |->
               IF c = "ml"
               THEN [k \in 1..Len(added) |->
                        [name |-> added[k].name, value |-> cells[k][r]]]
               ELSE rows[r][c]]]

\* enrich_with_ml: an empty table is returned as it is.  df is the
\* enriched table as the models see it (row count and columns), rows the
\* same table with its cells.
enrich_with_ml(rows, date_cols, now) ==
    IF rows = <<>>
    THEN [status |-> "ok", n_clusters |-> 0, df |-> MlFrame(0, <<>>), rows |-> <<>>]
    ELSE LET clustered == cluster_data(detect_anomalies_ml(
                              extract_features_auto(rows, date_cols, now)))
         IN IF clustered.status = "raised" THEN clustered
            ELSE [status |-> "ok", n_clusters |-> clustered.n_clusters,
                  df |-> predict_scores(clustered.df),
                  rows |-> MlRows(rows, predict_scores(clustered.df).cols, now)]

\* Largest number of rows of a table handed to the enrichment.
MaxMlRows == 2

MlFullRows ==
    { [id_client |-> c, montant |-> m, nom |-> t, pays |-> "FR"] :
        c \in {1, 2}, m \in {0, 50}, t \in {"a", "b"} }

\* The rows of a table that has the columns S.
MlRowsOver(S) == { [c \in S |-> r[c]] : r \in MlFullRows }

InitMl ==
    /\ IdleRun
    /\ IdleMongo
    /\ IdleFact
    /\ IdleClean
    /\ IdleSilver
    /\ score_triple = <<0, 0, 0>>
    /\ values = <<>>
    /\ \E S \in (SUBSET {"id_client", "montant", "nom", "pays"}) \ {{}} :
           fact \in SeqsUpTo(MlRowsOver(S), MaxMlRows)
    /\ reference_date = 0
    /\ result = NoResult
    /\ phase = "input"

RunEnrichWithMl ==
    /\ phase = "input"
    /\ result' = enrich_with_ml(fact, {}, Now)
    /\ phase' = "ml"
    /\ UNCHANGED <<cleanVars, silverVars, runVars, mongoVars, factVars, score_triple, values, fact, reference_date>>

NextMl == RunEnrichWithMl

SpecMl == InitMl /\ [][NextMl]_vars

\* C19: enrich_with_ml returns, for every table, a table with as many rows
\* as it was given, and the cluster count it hands to K-Means is at most
\* the number of rows.
C19_EnrichNeverRaises ==
    phase = "ml" =>
        /\ result.status = "ok"
        /\ result.df.n = Len(fact)
        /\ result.n_clusters <= Len(fact)

\* ------------------------------------------------------ RFM, score order
\* C20: within one RFM table, a customer at least as recent as another has
\* an R_score at least as high; one who bought no more often has an
\* F_score no higher; one who spent no more has an M_score no higher.
C20_ScoresFollowValues ==
    (phase = "rfm" /\ result.status = "ok") =>
        \A a, b \in 1..Len(result.rows) :
            LET ra == result.rows[a]
                rb == result.rows[b]
            IN /\ ra.recency <= rb.recency => ra.R_score >= rb.R_score
               /\ ra.frequency <= rb.frequency => ra.F_score <= rb.F_score
               /\ ra.monetary <= rb.monetary => ra.M_score <= rb.M_score

\* Two customers: the one who bought more recently, more often and for more
\* has the strictly higher score on each of the three.
C20_Witness ==
    /\ phase = "rfm"
    /\ result.status = "ok"
    /\ \E a, b \in 1..Len(result.rows) :
           /\ result.rows[a].recency < result.rows[b].recency
           /\ result.rows[a].R_score > result.rows[b].R_score
           /\ result.rows[a].frequency > result.rows[b].frequency
           /\ result.rows[a].F_score > result.rows[b].F_score
           /\ result.rows[a].monetary > result.rows[b].monetary
           /\ result.rows[a].M_score > result.rows[b].M_score

\* ------------------------------------------------- cluster count, alone
\* Largest number of rows of a table handed to cluster_data.
MaxClusterRows == 60

\* Tables described by their number of rows and their columns: two numeric
\* columns, with or without a text column.
ClusterFrameChoices ==
    { MlFrame(n, cols) :
        n \in 1..MaxClusterRows,
        cols \in { <<MlColumn(<<"id_client">>, "numeric", "data"),
                     MlColumn(<<"montant">>, "numeric", "data")>>,
                   <<MlColumn(<<"id_client">>, "numeric", "data"),
                     MlColumn(<<"montant">>, "numeric", "data"),
                     MlColumn(<<"nom">>, "text", "data")>> } }

InitCluster ==
    /\ IdleRun
    /\ IdleMongo
    /\ IdleFact
    /\ IdleClean
    /\ IdleSilver
    /\ score_triple = <<0, 0, 0>>
    /\ values = <<>>
    /\ fact \in ClusterFrameChoices
    /\ reference_date = 0
    /\ result = NoResult
    /\ phase = "input"

RunClusterData ==
    /\ phase = "input"
    /\ result' = cluster_data(fact)
    /\ phase' = "clustered"
    /\ UNCHANGED <<cleanVars, silverVars, runVars, mongoVars, factVars, score_triple, values, fact, reference_date>>

NextCluster == RunClusterData

SpecCluster == InitCluster /\ [][NextCluster]_vars

\* C21: on a table of n rows with at least 2 numeric columns, the cluster
\* count that cluster_data chooses is round(sqrt(n / 2)) clamped to 2..10.
C21_ClusterCountIsRounded ==
    phase = "clustered" =>
        LET n == fact.n
            rounded == CHOOSE k \in 0..n :
                           (2 * k - 1) * (2 * k - 1) < 2 * n
                               /\ 2 * n < (2 * k + 1) * (2 * k + 1)
        IN result.n_clusters = Min2(Max2(rounded, 2), 10)

\* ------------------------------------------------------------- Pareto
\* C22: pareto_20_pct_clients is the smallest share of the customers, taken
\* by descending revenue, whose cumulated revenue is at least 80% of the
\* total; it is not 0 when there is a customer.
C22_ParetoReaches80 ==
    (phase = "concentration" /\ result.status = "ok") =>
        LET cc == result.client_concentration
            n == Len(cc)
            total == cc[n].ca_cumul
            k == CHOOSE i \in 1..n :
                     /\ cc[i].ca_cumul * 100 >= 80 * total
                     /\ \A j \in 1..(i - 1) : cc[j].ca_cumul * 100 < 80 * total
            pareto == result.concentration_summary.pareto_20_pct_clients
        IN /\ pareto.num * n = k * 100 * pareto.den
           /\ pareto.num > 0

\* ------------------------------------------------------------------ CLV
\* C23: for every customer of calculate_clv_metrics, duree_vie_jours >= 0,
\* frequence_mensuelle = nb_achats / max(duree_vie_jours / 30, 1), which
\* lies in (0, nb_achats], and clv_predictif_12m = frequence_mensuelle *
\* panier_moyen * 12.
C23_MonthlyFrequency ==
    phase = "clv" =>
        \A i \in 1..Len(result.clv) :
            LET r == result.clv[i]
                f == r.frequence_mensuelle
                months == IF r.duree_vie_jours >= 30
                          THEN Ratio(r.duree_vie_jours, 30) ELSE Ratio(1, 1)
            IN /\ r.duree_vie_jours >= 0
               /\ f.den > 0
               /\ f.num * months.num = r.nb_achats * months.den * f.den
               /\ f.num > 0
               /\ f.num <= r.nb_achats * f.den
               /\ r.clv_predictif_12m.den > 0
               /\ r.clv_predictif_12m.num * f.den * r.panier_moyen.den
                      = f.num * r.panier_moyen.num * 12 * r.clv_predictif_12m.den

\* One customer bought twice 75 days apart (0.8 purchases a month) and
\* another bought once, first and last purchase on the same day.
C23_Witness ==
    /\ phase = "clv"
    /\ Len(result.clv) = 2
    /\ result.clv[1].duree_vie_jours = 75
    /\ result.clv[1].nb_achats = 2
    /\ result.clv[1].frequence_mensuelle.num * 5 = 4 * result.clv[1].frequence_mensuelle.den
    /\ result.clv[2].duree_vie_jours = 0
    /\ result.clv[2].frequence_mensuelle = Ratio(1, 1)

\* ------------------------------------------------------ generic cleaner
\* clean_data_generic on a table of float columns whose names carry no
\* date or e-mail keyword: column k is a row key that is never missing,
\* columns a..e hold a number or NULL.  "inplace" tells whether
\* df_clean[col].fillna(..., inplace=True), a fill through a column
\* selected from the table, reaches the table: it does with pandas before
\* 3.0 and does not with copy-on-write.  Steps 1 and 5 leave float columns
\* alone; step 6 removes rows only when 0 < outliers < len / 10, which
\* needs more than 10 rows.
GenericColumns == <<"k", "a", "b", "c", "d", "e">>

clean_data_generic(rows, inplace) ==
    LET idx == {i \in 1..Len(rows) : \A j \in 1..(i - 1) : rows[j] # rows[i]}
        RECURSIVE Pick(_)
        Pick(i) == IF i > Len(rows) THEN <<>>
                   ELSE IF i \in idx THEN <<rows[i]>> \o Pick(i + 1) ELSE Pick(i + 1)
        d2 == Pick(1)
        n == Len(d2)
        nulls(c) == Cardinality({i \in 1..n : d2[i][c] = NULL})
        keptCol(c) == ~(nulls(c) * 100 > 50 * n)
        kept == SelectSeq(GenericColumns, keptCol)
        keptSet == {kept[i] : i \in 1..Len(kept)}
        present(c) == LET has(v) == v # NULL IN SortAsc(SelectSeq(Column(d2, c), has))
        median(c) == LET v == present(c)
                         m == Len(v)
                     IN IF m % 2 = 1 THEN v[(m + 1) \div 2]
                        ELSE (v[m \div 2] + v[m \div 2 + 1]) \div 2
        cell(i, c) == IF inplace /\ d2[i][c] = NULL THEN median(c) ELSE d2[i][c]
        d3 == [i \in 1..n |-> [c \in keptSet |-> cell(i, c)]]
        enough(r) == 10 * Cardinality({c \in keptSet : r[c] # NULL}) >= 8 * Len(kept)
    IN IF rows = <<>> THEN [cols |-> <<>>, rows |-> <<>>]
       ELSE [cols |-> kept, rows |-> SelectSeq(d3, enough)]

\* Largest number of rows of a table handed to clean_data_generic.
MaxGenericRows == 3

\* Cells a..e of a row: complete, empty, or partly missing; values are
\* even so that a median is a whole number.
GenericCellChoices ==
    { <<2, 2, 2, 2, 2>>, <<4, 4, 4, 4, 4>>, <<NULL, NULL, NULL, NULL, NULL>>,
      <<NULL, 2, 2, 2, 2>>, <<NULL, NULL, NULL, 4, 4>> }

WithKeys(cells) ==
    [i \in 1..Len(cells) |->
        [k |-> i, a |-> cells[i][1], b |-> cells[i][2], c |-> cells[i][3],
         d |-> cells[i][4], e |-> cells[i][5]]]

InitGeneric ==
    /\ IdleRun
    /\ IdleMongo
    /\ IdleFact
    /\ IdleClean
    /\ IdleSilver
    /\ score_triple = <<0, 0, 0>>
    /\ values = <<>>
    /\ \E cells \in SeqsUpTo(GenericCellChoices, MaxGenericRows) : fact = WithKeys(cells)
    /\ reference_date = 0
    /\ result = NoResult
    /\ phase = "input"

RunCleanGeneric ==
    /\ phase = "input"
    /\ \E inplace \in BOOLEAN : result' = clean_data_generic(fact, inplace)
    /\ phase' = "generic"
    /\ UNCHANGED <<cleanVars, silverVars, runVars, mongoVars, factVars, score_triple, values, fact, reference_date>>

NextGeneric == RunCleanGeneric

SpecGeneric == InitGeneric /\ [][NextGeneric]_vars

\* C24: a column with more than 50% of its values missing is not in the
\* output; a row with more than 80% of its values missing, over the
\* columns that are left, is not in the output; the output has no missing
\* value.
C24_DropThenFill ==
    phase = "generic" =>
        LET n == Len(fact)
            cols == {GenericColumns[i] : i \in 1..Len(GenericColumns)}
            sparse(c) == 2 * Cardinality({i \in 1..n : fact[i][c] = NULL}) > n
            left == {c \in cols : ~sparse(c)}
            hollow(i) == 10 * Cardinality({c \in left : fact[i][c] = NULL})
                             > 8 * Cardinality(left)
            outCols == {result.cols[i] : i \in 1..Len(result.cols)}
        IN /\ \A c \in cols : sparse(c) => c \notin outCols
           /\ \A i \in 1..n :
                  hollow(i) => \A j \in 1..Len(result.rows) : result.rows[j].k # fact[i].k
           /\ \A j \in 1..Len(result.rows) : \A c \in outCols : result.rows[j][c] # NULL

\* ------------------------------------------------------ year over year
\* Purchases on 2023-11-15, 2024-01-15 and 2024-11-15; an amount may be
\* zero or negative.
YoyFactRows ==
    { [id_client |-> 1, date_achat |-> t, montant |-> m] :
        t \in {636, 758, 1368}, m \in {-50, 0, 100, 150} }

InitYoy ==
    /\ IdleRun
    /\ IdleMongo
    /\ IdleFact
    /\ IdleClean
    /\ IdleSilver
    /\ score_triple = <<0, 0, 0>>
    /\ values = <<>>
    /\ fact \in SeqsUpTo(YoyFactRows, MaxFactRows)
    /\ reference_date = 0
    /\ result = NoResult
    /\ phase = "input"

NextYoy == RunGrowthMetrics

SpecYoy == InitYoy /\ [][NextYoy]_vars

\* C25: a month's taux_croissance_yoy is its growth over the revenue of the
\* same calendar month one year earlier, and 0 when the data has no such
\* month; taux_croissance_annualise is 0 when there are fewer than two
\* months or the first month's revenue is not positive.
C25_YearOverYear ==
    phase = "growth" =>
        LET out == result.monthly_growth
            n == Len(out)
            months == {PeriodM(fact[j].date_achat) : j \in 1..Len(fact)}
            annual == result.growth_summary.taux_croissance_annualise
        IN /\ \A i \in 1..n :
                  LET k == out[i].annee_mois
                      before == <<k[1] - 1, k[2]>>
                      yoy == out[i].taux_croissance_yoy
                  IN IF before \notin months THEN yoy.num = 0
                     ELSE Revenue(before) # 0 =>
                              /\ yoy.den # 0
                              /\ yoy.num * Revenue(before)
                                     = (Revenue(k) - Revenue(before)) * 100 * yoy.den
           /\ (n < 2 \/ (n > 0 /\ Revenue(out[1].annee_mois) <= 0)) => annual.zero
           /\ (n >= 2 /\ Revenue(out[1].annee_mois) > 0) =>
                  /\ ~annual.zero
                  /\ annual.first = Revenue(out[1].annee_mois)
                  /\ annual.last = Revenue(out[n].annee_mois)
                  /\ annual.months = n

\* November 2023 brought 100 and November 2024 brought 150, with January
\* 2024 in between: the rate of November 2024 is 50%.
C25_Witness ==
    /\ phase = "growth"
    /\ Len(result.monthly_growth) = 3
    /\ result.monthly_growth[1].ca_total = 100
    /\ result.monthly_growth[2].annee_mois = <<2024, 1>>
    /\ result.monthly_growth[2].taux_croissance_yoy.num = 0
    /\ result.monthly_growth[3].annee_mois = <<2024, 11>>
    /\ result.monthly_growth[3].ca_total = 150
    /\ result.monthly_growth[3].taux_croissance_yoy.num
           = 50 * result.monthly_growth[3].taux_croissance_yoy.den

\* ------------------------------------------------- Gold to MongoDB
\* One table of each group of run_mongo_sync.
KPI_SPECS == << [collection |-> "kpis_rfm", path |-> "kpis/kpi_rfm.parquet"] >>

FACT_SPECS == << [collection |-> "facts_ca_jour", path |-> "facts/fact_ca_jour.parquet"] >>

ANALYTICS_SPECS ==
    << [collection |-> "analytics_cohortes_total",
        path |-> "analytics/analytics_cohortes_total.parquet"] >>

\* The tables in the order in which run_mongo_sync goes through them.
SyncSpecs == KPI_SPECS \o FACT_SPECS \o ANALYTICS_SPECS

Collections == {SyncSpecs[i].collection : i \in 1..Len(SyncSpecs)}
GoldPaths == {SyncSpecs[i].path : i \in 1..Len(SyncSpecs)}

\* Largest number of rows of a Gold table.
MaxDocs == 2
\* Largest number of runs of the Gold flow.
MaxGoldRuns == 2
\* Largest number of synchronisations.
MaxSyncs == 2

\* The table of k rows written by run number g of the Gold flow.
GoldTable(g, k) == [i \in 1..k |-> [run |-> g, row |-> i]]

\* The three paths in the order in which gold_aggregation_flow writes them:
\* lines 159, 173 and 201.
GoldWriteOrder ==
    <<"facts/fact_ca_jour.parquet", "kpis/kpi_rfm.parquet",
      "analytics/analytics_cohortes_total.parquet">>

\* The flow gets to the aggregations with a fact table of at least one
\* row, so the table per day and the RFM summary have rows; the cohort
\* table has none when no purchase has a customer with a date_inscription.
GoldTableSizes(path) ==
    IF path = "analytics/analytics_cohortes_total.parquet" THEN 0..MaxDocs ELSE 1..MaxDocs

NoGoldFlow == [pc |-> "idle", idx |-> 0]

NoSync == [idx |-> 0, pc |-> "idle", docs |-> <<>>, counts |-> {}]
NoResponse == [collection |-> "none", docs |-> <<>>, during_sync |-> 0]

\* Gold as the first run of the flow left it; nothing is in MongoDB yet.
InitMongo ==
    /\ IdleRun
    /\ IdleFact
    /\ IdleClean
    /\ IdleSilver
    /\ IdleGold
    /\ gold_runs = 1
    /\ gold \in [GoldPaths -> {GoldTable(1, k) : k \in 0..MaxDocs}]
    /\ \A p \in GoldPaths : Len(gold[p]) \in GoldTableSizes(p)
    /\ gold_flow = NoGoldFlow
    /\ gold_before = gold
    /\ mongo = [c \in Collections |-> <<>>]
    /\ metadata_refresh = <<>>
    /\ sync = NoSync
    /\ mongo_before = mongo
    /\ api_response = NoResponse
    /\ phase = "gold"

MongoFrame == <<cleanVars, silverVars, goldVars, runVars, factVars>>

\* gold_aggregation_flow is started again.  Nothing orders it against
\* run_mongo_sync or the API: they are separate processes.
StartGoldFlow ==
    /\ gold_flow.pc = "idle"
    /\ gold_runs < MaxGoldRuns
    /\ gold_runs' = gold_runs + 1
    /\ gold_flow' = [pc |-> "writing", idx |-> 1]
    /\ UNCHANGED <<MongoFrame, gold, mongo, metadata_refresh, sync, mongo_before,
                   api_response, gold_before, phase>>

\* One write_parquet_to_gold of the running flow: put_object replaces the
\* object at the path; after the last path the flow returns.
GoldAggregation ==
    /\ gold_flow.pc = "writing"
    /\ LET path == GoldWriteOrder[gold_flow.idx]
       IN \E k \in GoldTableSizes(path) :
              gold' = [gold EXCEPT ![path] = GoldTable(gold_runs, k)]
    /\ gold_flow' = IF gold_flow.idx = Len(GoldWriteOrder) THEN NoGoldFlow
                    ELSE [gold_flow EXCEPT !.idx = @ + 1]
    /\ UNCHANGED <<MongoFrame, gold_runs, mongo, metadata_refresh, sync, mongo_before,
                   api_response, gold_before, phase>>

\* An aggregation of the running flow raises: the paths already written
\* keep the tables of this run, the others those of the run before.
GoldFlowRaises ==
    /\ gold_flow.pc = "writing"
    /\ gold_flow' = NoGoldFlow
    /\ UNCHANGED <<MongoFrame, gold, gold_runs, mongo, metadata_refresh, sync,
                   mongo_before, api_response, gold_before, phase>>

\* run_mongo_sync is started.
StartSync ==
    /\ sync.pc = "idle"
    /\ Len(metadata_refresh) < MaxSyncs
    /\ sync' = [idx |-> 1, pc |-> "read", docs |-> <<>>, counts |-> {}]
    /\ mongo_before' = mongo
    /\ gold_before' = gold
    /\ phase' = "sync"
    /\ UNCHANGED <<MongoFrame, gold, gold_runs, gold_flow, mongo, metadata_refresh,
                   api_response>>

\* sync_group, top of the loop: the table is read; an empty one is skipped.
SyncRead ==
    /\ sync.pc = "read"
    /\ sync.idx <= Len(SyncSpecs)
    /\ LET df == gold[SyncSpecs[sync.idx].path]
       IN sync' = IF df = <<>>
                  THEN [sync EXCEPT !.idx = @ + 1]
                  ELSE [sync EXCEPT !.pc = "drop", !.docs = df]
    /\ UNCHANGED <<MongoFrame, gold_flow, gold_before,
                   gold, gold_runs, mongo, metadata_refresh, mongo_before,
                   api_response, phase>>

\* sync_group: coll.drop().
SyncDrop ==
    /\ sync.pc = "drop"
    /\ mongo' = [mongo EXCEPT ![SyncSpecs[sync.idx].collection] = <<>>]
    /\ sync' = [sync EXCEPT !.pc = "insert"]
    /\ UNCHANGED <<MongoFrame, gold_flow, gold_before,
                   gold, gold_runs, metadata_refresh, mongo_before,
                   api_response, phase>>

\* sync_group: coll.insert_many(docs) writes the documents one after the
\* other; after the last one the loop goes to the next table.
SyncInsert ==
    /\ sync.pc = "insert"
    /\ LET c == SyncSpecs[sync.idx].collection
           done == Len(mongo[c])
           total == Len(sync.docs)
       IN /\ mongo' = [mongo EXCEPT ![c] = Append(@, sync.docs[done + 1])]
          /\ sync' = IF done + 1 = total
                     THEN [idx |-> sync.idx + 1, pc |-> "read", docs |-> <<>>,
                           counts |-> sync.counts \cup {<<c, total>>}]
                     ELSE sync
    /\ UNCHANGED <<MongoFrame, gold_flow, gold_before,
                   gold, gold_runs, metadata_refresh, mongo_before,
                   api_response, phase>>

\* run_mongo_sync, after the three groups: the metadata document.
FinishSync ==
    /\ sync.pc = "read"
    /\ sync.idx > Len(SyncSpecs)
    /\ metadata_refresh' = Append(metadata_refresh, [counts |-> sync.counts])
    /\ sync' = NoSync
    /\ phase' = "synced"
    /\ UNCHANGED <<MongoFrame, gold_flow, gold_before,
                   gold, gold_runs, mongo, mongo_before, api_response>>

\* The synchronisation that is running: 1 for the first one, 0 for none.
RunningSync == IF sync.pc = "idle" THEN 0 ELSE Len(metadata_refresh) + 1

\* db[coll_name].find({}, limit=limit) with a limit above the table size;
\* during_sync notes the synchronisation during which the read was made.
find(c) == [collection |-> c, docs |-> mongo[c], during_sync |-> RunningSync]

get_kpis ==
    /\ \E i \in 1..Len(KPI_SPECS) : api_response' = find(KPI_SPECS[i].collection)
    /\ UNCHANGED <<MongoFrame, gold_flow, gold_before,
                   gold, gold_runs, mongo, metadata_refresh, sync, mongo_before, phase>>

get_facts ==
    /\ \E i \in 1..Len(FACT_SPECS) : api_response' = find(FACT_SPECS[i].collection)
    /\ UNCHANGED <<MongoFrame, gold_flow, gold_before,
                   gold, gold_runs, mongo, metadata_refresh, sync, mongo_before, phase>>

get_analytics ==
    /\ \E i \in 1..Len(ANALYTICS_SPECS) :
           api_response' = find(ANALYTICS_SPECS[i].collection)
    /\ UNCHANGED <<MongoFrame, gold_flow, gold_before,
                   gold, gold_runs, mongo, metadata_refresh, sync, mongo_before, phase>>

NextMongo ==
    \/ StartGoldFlow
    \/ GoldAggregation
    \/ GoldFlowRaises
    \/ StartSync
    \/ SyncRead
    \/ SyncDrop
    \/ SyncInsert
    \/ FinishSync
    \/ get_kpis
    \/ get_facts
    \/ get_analytics

SpecMongo == InitMongo /\ [][NextMongo]_vars

\* C26: when run_mongo_sync has completed and the Gold flow has written
\* nothing since the sync started, each collection holds exactly the rows
\* of the current Gold table, a Gold table of zero rows included.
C26_FullReplacement ==
    (phase = "synced" /\ gold = gold_before) =>
        \A i \in 1..Len(SyncSpecs) :
            mongo[SyncSpecs[i].collection] = gold[SyncSpecs[i].path]

\* C28: a read made while run_mongo_sync runs, of a table that is not
\* empty before the sync and not empty in Gold, returns the whole table:
\* the documents from before the sync or the rows of the Gold table, which
\* the Gold flow has not written since the sync started.
C28_ReadsSeeWholeTables ==
    \A i \in 1..Len(SyncSpecs) :
        (/\ RunningSync > 0
         /\ api_response.during_sync = RunningSync
         /\ api_response.collection = SyncSpecs[i].collection
         /\ mongo_before[SyncSpecs[i].collection] # <<>>
         /\ gold = gold_before
         /\ gold[SyncSpecs[i].path] # <<>>)
        => api_response.docs \in {mongo_before[SyncSpecs[i].collection],
                                  gold[SyncSpecs[i].path]}

\* ------------------------------------------------ Silver, run after run
\* The flow is run again after new files have been uploaded to Bronze;
\* the Silver bucket is as the earlier runs left it.
RerunClientRows ==
    { [id_client |-> 1, nom |-> "n", email |-> e, date_inscription |-> Now,
       pays |-> NA] : e \in {"a@x", "noat"} }

RerunAchatRows ==
    { [id_achat |-> 1, id_client |-> c, date_achat |-> Now, montant |-> 50,
       produit |-> "A"] : c \in {1, 3} }

RerunFlow ==
    /\ phase \in {"completed", "failed"}
    /\ clients_raw' \in SeqsUpTo(RerunClientRows, MaxRows)
    /\ achats_raw' \in SeqsUpTo(RerunAchatRows, MaxRows)
    /\ valid_client_ids' = [given |-> FALSE, ids |-> {}]
    /\ achats_out' = NoOut
    /\ file_idx' = 1
    /\ summary' = [d \in Datasets |-> "absent"]
    /\ phase' = "running"
    /\ UNCHANGED <<clients_out, csv_files, silver, goldVars, runVars, mongoVars, factVars>>

InitSilverRuns ==
    /\ IdleRun
    /\ IdleMongo
    /\ IdleFact
    /\ clients_raw \in SeqsUpTo(RerunClientRows, MaxRows)
    /\ achats_raw \in SeqsUpTo(RerunAchatRows, MaxRows)
    /\ valid_client_ids = [given |-> FALSE, ids |-> {}]
    /\ achats_out = NoOut
    /\ clients_out = NoOut
    /\ csv_files \in {<<"clients.csv", "achats.csv">>, <<"achats.csv", "clients.csv">>}
    /\ file_idx = 1
    /\ summary = [d \in Datasets |-> "absent"]
    /\ silver = [d \in Datasets |-> Absent]
    /\ IdleGold
    /\ phase = "running"

NextSilverRuns == NextSilver \/ RerunFlow

SpecSilverRuns == InitSilverRuns /\ [][NextSilverRuns]_vars

\* C27: when the flow has completed, the Silver object of each dataset
\* holds the table cleaned by this run; after a run whose raw or cleaned
\* table is empty the object holds no rows of an earlier run.
C27_SilverHoldsThisRun ==
    phase = "completed" =>
        /\ silver["clients"].rows =
               IF clients_raw = <<>> THEN <<>>
               ELSE clean_clients_data(clients_raw).rows
        /\ silver["achats"].rows =
               IF achats_raw = <<>> THEN <<>> ELSE achats_out.df.rows

\* ------------------------------------------- retention: horizons and bands
\* C29, as stated: retention_30j is taux_retention_30j, the share of the
\* customers with statut Actif; retention_90j is the share with statut
\* Actif or À risque; retention_180j is the share with a statut other than
\* Churn; taux_churn is 100 - retention_180j; for every fact table.
C29_HorizonsAgreeWithBands ==
    phase = "retention" =>
        LET g == result.global_metrics
            detail == result.retention_detail
            n == Len(detail)
            with(S) == Cardinality({i \in 1..n : detail[i].statut \in S})
            IsShare(q, S) == q.num * n = with(S) * 100 * q.den
        IN /\ g.retention[30] = g.taux_retention_30j
           /\ IsShare(g.retention[30], {"Actif"})
           /\ IsShare(g.retention[90], {"Actif", "À risque"})
           /\ IsShare(g.retention[180], {"Actif", "À risque", "Inactif"})
           /\ g.taux_churn.num * g.retention[180].den
                  = (100 * g.retention[180].den - g.retention[180].num)
                        * g.taux_churn.den

\* C29, amended: the same for every fact table with at least one customer.
C29_HorizonsAgreeWithBandsNonEmpty ==
    (phase = "retention" /\ result.global_metrics.total_clients > 0) =>
        LET g == result.global_metrics
            detail == result.retention_detail
            n == Len(detail)
            with(S) == Cardinality({i \in 1..n : detail[i].statut \in S})
            IsShare(q, S) == q.den # 0 /\ q.num * n = with(S) * 100 * q.den
        IN /\ g.retention[30] = g.taux_retention_30j
           /\ IsShare(g.retention[30], {"Actif"})
           /\ IsShare(g.retention[90], {"Actif", "À risque"})
           /\ IsShare(g.retention[180], {"Actif", "À risque", "Inactif"})
           /\ g.taux_churn.den # 0
           /\ g.taux_churn.num * g.retention[180].den
                  = (100 * g.retention[180].den - g.retention[180].num)
                        * g.taux_churn.den

\* One customer inactive for 90 days, at risk, and one for 181 days, lost.
C29_Witness ==
    /\ phase = "retention"
    /\ Len(result.retention_detail) = 2
    /\ result.retention_detail[1].jours_inactivite = 90
    /\ result.retention_detail[1].statut = "À risque"
    /\ result.retention_detail[2].jours_inactivite = 181
    /\ result.retention_detail[2].statut = "Churn"
    /\ result.global_metrics.retention[30].num = 0
    /\ result.global_metrics.retention[90] = [num |-> 100, den |-> 2]
    /\ result.global_metrics.retention[180] = [num |-> 100, den |-> 2]
    /\ result.global_metrics.taux_churn = [num |-> 100, den |-> 2]

\* ------------------------------------------------- cleaning, applied twice
\* Raw purchases: an id_client may be a text that is no number, a date
\* may lie after the run time, an amount may be out of bounds.
IdemAchatRows ==
    { [id_achat |-> a, id_client |-> c, date_achat |-> dm[1], montant |-> dm[2],
       produit |-> NA] :
        a \in {1, 2}, c \in {1, BAD},
        dm \in { <<Now, 50>>, <<Now + 1, 50>>, <<Now, 0>> } }

IdemClientRows ==
    { [id_client |-> c, nom |-> "n", email |-> e, date_inscription |-> t,
       pays |-> NA] :
        c \in {1, BAD}, e \in {"a@x", "noat"}, t \in {Now, Now + 1} }

InitIdem ==
    /\ IdleRun
    /\ IdleMongo
    /\ IdleFact
    /\ \/ achats_raw \in SeqsUpTo(IdemAchatRows, MaxRows) /\ clients_raw = <<>>
       \/ achats_raw = <<>> /\ clients_raw \in SeqsUpTo(IdemClientRows, MaxRows)
    /\ valid_client_ids \in ValidIdChoices
    /\ achats_out = NoOut
    /\ clients_out = NoOut
    /\ csv_files = <<>>
    /\ file_idx = 0
    /\ summary = [d \in Datasets |-> "absent"]
    /\ silver = [d \in Datasets |-> Absent]
    /\ IdleGold
    /\ phase = "input"

\* clean_achats_data is given the table it returned, with the same
\* valid_client_ids and at the same run time.
CleanAchatsAgain ==
    /\ phase = "cleaned"
    /\ achats_out.status = "ok"
    /\ achats_out' = clean_achats_data(achats_out.df.rows, valid_client_ids)
    /\ phase' = "recleaned"
    /\ UNCHANGED <<achats_raw, valid_client_ids, clients_out, silverVars, goldVars,
                   runVars, mongoVars, factVars>>

\* clean_clients_data is given the table it returned.
CleanClientsAgain ==
    /\ phase = "cleaned_clients"
    /\ clients_out' = [status |-> "ok", df |-> clean_clients_data(clients_out.df.rows)]
    /\ phase' = "recleaned_clients"
    /\ UNCHANGED <<achats_raw, valid_client_ids, achats_out, silverVars, goldVars,
                   runVars, mongoVars, factVars>>

NextIdem == CleanAchats \/ CleanClients \/ CleanAchatsAgain \/ CleanClientsAgain

SpecIdem == InitIdem /\ [][NextIdem]_vars

\* C30: at a fixed run time, cleaning a cleaned table gives that table:
\* clean_clients_data(clean_clients_data(x)) = clean_clients_data(x) and
\* clean_achats_data(clean_achats_data(x, ids), ids) = clean_achats_data(x, ids).
\* Two tables are the same when they have the same rows and, unless they
\* are empty, the same column types.
C30_CleaningIsIdempotent ==
    LET Same(a, b) == a.rows = b.rows /\ (a.rows # <<>> => a.obj = b.obj)
    IN /\ phase = "recleaned" =>
              LET once == clean_achats_data(achats_raw, valid_client_ids)
              IN achats_out.status = once.status /\ Same(achats_out.df, once.df)
       /\ phase = "recleaned_clients" =>
              Same(clients_out.df, clean_clients_data(clients_raw))

\* ------------------------------------------------------- pipeline runs
\* A pipeline run is silver_transformation_flow followed by
\* gold_aggregation_flow.  Neither flow takes a reference time: each of
\* standardize_dates (once per dataset), extract_features_auto,
\* calculate_rfm_segmentation, calculate_retention_metrics and
\* calculate_global_kpis reads the wall clock when it is called, and time
\* passes between the calls.  The buckets keep what earlier runs wrote.
MaxRuns == 2
MaxClock == 802

\* The objects gold_aggregation_flow writes.
GoldObjects ==
    {"ml/clients_enriched_ml.parquet", "ml/achats_enriched_ml.parquet",
     "dimensions/dim_clients.parquet", "dimensions/dim_produits.parquet",
     "dimensions/dim_temps.parquet", "facts/fact_achats.parquet",
     "facts/fact_ca_jour.parquet", "facts/fact_ca_semaine.parquet",
     "facts/fact_ca_mois.parquet", "facts/fact_ca_heure.parquet",
     "facts/fact_ca_pays.parquet",
     "dimensions/dim_rfm.parquet", "kpis/kpi_rfm.parquet",
     "kpis/kpi_clv_detail.parquet", "kpis/kpi_clv_pays.parquet",
     "kpis/kpi_retention_detail.parquet", "kpis/kpi_retention_summary.parquet",
     "kpis/kpi_retention_global.parquet",
     "kpis/kpi_produits.parquet", "kpis/kpi_top_produits_ca.parquet",
     "kpis/kpi_top_produits_volume.parquet", "kpis/kpi_diversite_panier.parquet",
     "kpis/kpi_diversite_summary.parquet",
     "analytics/analytics_cohortes_ca.parquet",
     "analytics/analytics_cohortes_total.parquet",
     "analytics/analytics_cohortes_retention.parquet",
     "analytics/analytics_saisonnalite_jour.parquet",
     "analytics/analytics_saisonnalite_heure.parquet",
     "analytics/analytics_saisonnalite_mois.parquet",
     "analytics/analytics_saisonnalite_weekend.parquet",
     "analytics/analytics_distributions_summary.parquet",
     "analytics/analytics_distributions_clients.parquet",
     "analytics/analytics_distributions_produits.parquet",
     "analytics/analytics_concentration_summary.parquet",
     "analytics/analytics_concentration_clients.parquet",
     "analytics/analytics_concentration_pays.parquet",
     "analytics/analytics_concentration_produits.parquet",
     "kpis/kpi_globaux.parquet",
     "kpis/kpi_croissance_mensuelle.parquet", "kpis/kpi_croissance_summary.parquet"}

NoObject == [status |-> "absent"]

\* write_parquet_to_gold: put_object replaces the object, whatever the
\* table holds.
write_parquet_to_gold(bucket, path, df) ==
    [bucket EXCEPT ![path] = [status |-> "present", df |-> df]]

\* create_dim_clients
create_dim_clients(clients) ==
    [status |-> "ok",
     rows |-> [i \in 1..Len(clients) |->
         [row |-> clients[i],
          annee_inscription |-> YearOf(clients[i].date_inscription),
          mois_inscription |-> PeriodM(clients[i].date_inscription)[2],
          trimestre_inscription |->
              ((PeriodM(clients[i].date_inscription)[2] - 1) \div 3) + 1]]]

\* pd.cut(montant_moyen, bins=[0, 100, 250, 500, inf]) on a mean num / den
categorie_prix(mean) ==
    IF mean.num <= 0 THEN NA
    ELSE IF mean.num <= 100 * mean.den THEN "Bas"
    ELSE IF mean.num <= 250 * mean.den THEN "Moyen"
    ELSE IF mean.num <= 500 * mean.den THEN "Élevé"
    ELSE "Premium"

\* create_dim_produits
create_dim_produits(achats) ==
    LET produits == TextKeys(achats, "produit")
    IN [status |-> "ok",
        rows |-> [k \in 1..Len(produits) |->
            LET montants == Column(Group(achats, "produit", produits[k]), "montant")
            IN [produit |-> produits[k],
                montant_min |-> SeqMin(montants),
                montant_max |-> SeqMax(montants),
                montant_moyen |-> Ratio(SeqSum(montants), Len(montants)),
                ca_total |-> SeqSum(montants),
                nb_achats |-> Len(montants),
                categorie_prix |-> categorie_prix(Ratio(SeqSum(montants), Len(montants)))]]]

\* create_dim_temps(date_min, date_max): one row per day from date_min on.
create_dim_temps(achats) ==
    LET date_min == SeqMin(Column(achats, "date_achat"))
        date_max == SeqMax(Column(achats, "date_achat"))
    IN [status |-> "ok",
        rows |-> [k \in 1..(Days(date_max - date_min) + 1) |->
            LET t == date_min + (k - 1) * TicksPerDay
            IN [date |-> t, jour |-> DayOfMonth(t), mois |-> PeriodM(t)[2],
                annee |-> YearOf(t), semaine_annee |-> IsoWeek(t),
                jour_semaine_num |-> DayOfWeek(t),
                est_weekend |-> DayOfWeek(t) \in {5, 6}]]]

\* The first run is at 2024-02-05 00:00 (tick 800).  Customers signed up
\* on 2023-12-17; purchases are dated 30 days before the first run and
\* half a day after it.
RunClientRows ==
    { [id_client |-> c, nom |-> "n", email |-> "a@x", date_inscription |-> 700,
       pays |-> "FR"] : c \in {1, 2} }

RunAchatRows ==
    { [id_achat |-> a, id_client |-> 1, date_achat |-> t, montant |-> 50,
       produit |-> "A"] : a \in {1, 2}, t \in {740, 801} }

\* Ten customers, and ten purchases of three of them; the last purchase is
\* dated last.
TenClients ==
    [i \in 1..10 |->
        [id_client |-> i, nom |-> "n", email |-> EmailsWithAt[i],
         date_inscription |-> 680 + 2 * i,
         pays |-> IF i % 2 = 0 THEN "DE" ELSE "FR"]]

TenAchats(last) ==
    [i \in 1..10 |->
        [id_achat |-> i, id_client |-> ((i * i) % 5) + 1,
         date_achat |-> IF i = 10 THEN last ELSE 720 + 2 * i,
         montant |-> IF i % 3 = 0 THEN 20 * i ELSE 50 * i,
         produit |-> IF i % 3 = 0 THEN "B" ELSE "A"]]

\* What the installed pandas and pyarrow make of the date columns of a
\* Silver table: none or all of them are datetime64[ns].
DateColsChoices == {{}, {"date_inscription", "date_achat"}}

\* gold_aggregation_flow: the statement it is at (pc), its tables
\* clients_df and achats_df, and the tables of the statement before that
\* are still to be written (to_write), in the order of their writes.
GoldFlowAt(pc, date_cols, clients, achats) ==
    [pc |-> pc, date_cols |-> date_cols, clients_df |-> clients, achats_df |-> achats,
     to_write |-> <<>>]

InitRuns ==
    /\ IdleFact
    /\ clock = 800
    /\ run_outputs = <<>>
    /\ clients_raw \in SeqsUpTo(RunClientRows, MaxRows) \cup {TenClients}
    /\ achats_raw \in SeqsUpTo(RunAchatRows, MaxRows) \cup {TenAchats(740), TenAchats(801)}
    /\ valid_client_ids = [given |-> FALSE, ids |-> {}]
    /\ achats_out = NoOut
    /\ clients_out = NoOut
    /\ csv_files \in {<<"clients.csv", "achats.csv">>, <<"achats.csv", "clients.csv">>}
    /\ file_idx = 0
    /\ summary = [d \in Datasets |-> "absent"]
    /\ silver = [d \in Datasets |-> Absent]
    /\ IdleGold
    /\ gold = [p \in GoldObjects |-> NoObject]
    /\ \E dc \in DateColsChoices : gold_flow = GoldFlowAt("idle", dc, <<>>, <<>>)
    /\ gold_runs = 0
    /\ mongo = <<>>
    /\ metadata_refresh = <<>>
    /\ sync = <<>>
    /\ mongo_before = <<>>
    /\ api_response = <<>>
    /\ gold_before = <<>>
    /\ phase = "runs"

\* Time passes, between two runs and during a run.
Tick ==
    /\ clock < MaxClock
    /\ clock' = clock + 1
    /\ UNCHANGED <<cleanVars, silverVars, goldVars, mongoVars, factVars, run_outputs, phase>>

\* silver_transformation_flow is started: discover_bronze_files, summary = {}.
StartRun ==
    /\ phase = "runs"
    /\ Len(run_outputs) < MaxRuns
    /\ valid_client_ids' = [given |-> FALSE, ids |-> {}]
    /\ achats_out' = NoOut
    /\ file_idx' = 1
    /\ summary' = [d \in Datasets |-> "absent"]
    /\ phase' = "running"
    /\ UNCHANGED <<achats_raw, clients_out, clients_raw, csv_files, silver, goldVars,
                   runVars, mongoVars, factVars>>

GoldFrame == <<cleanVars, silverVars, runVars, factVars, score_triple, values,
               reference_date, result, gold_runs, mongo, metadata_refresh, sync,
               mongo_before, api_response, gold_before, phase>>

\* read_silver_parquet("clients.parquet"), then ("achats.parquet"): one
\* get_object each; S3Error is re-raised when the object is missing.
GoldReadSilver ==
    /\ phase = "completed"
    /\ gold_flow.pc \in {"idle", "read_achats"}
    /\ LET dataset == IF gold_flow.pc = "idle" THEN "clients" ELSE "achats"
       IN gold_flow' =
              IF ~silver[dataset].present THEN [gold_flow EXCEPT !.pc = "failed"]
              ELSE IF dataset = "clients"
              THEN [gold_flow EXCEPT !.pc = "read_achats", !.clients_df = silver[dataset].rows]
              ELSE [gold_flow EXCEPT !.pc = "ml_clients", !.achats_df = silver[dataset].rows]
    /\ UNCHANGED <<GoldFrame, gold, fact>>

\* One statement group of the flow: the calls are made and either one
\* raises and the flow stops, or the tables they returned are handed to
\* write_parquet_to_gold one after the other (writes: the table and its
\* object path, in the order of the statements) and the flow goes on at
\* next.
GoldStretch(returned, writes, next) ==
    /\ phase = "completed"
    /\ gold_flow.to_write = <<>>
    /\ gold_flow' =
           IF returned.status = "raised"
           THEN [gold_flow EXCEPT !.pc = "failed"]
           ELSE [gold_flow EXCEPT
                    !.pc = next,
                    !.to_write = [i \in 1..Len(writes) |->
                                     [df |-> returned[writes[i][1]],
                                      path |-> writes[i][2]]]]
    /\ UNCHANGED <<GoldFrame, gold>>

\* clients_df = enrich_with_ml(clients_df, "clients") and the same for
\* achats_df, skipped for an empty table: the flow goes on with the
\* enriched table, which is also handed to write_parquet_to_gold.
GoldEnrich(table, returned, path, next) ==
    /\ phase = "completed"
    /\ gold_flow.to_write = <<>>
    /\ gold_flow' =
           IF gold_flow[table] = <<>> THEN [gold_flow EXCEPT !.pc = next]
           ELSE IF returned.status = "raised" THEN [gold_flow EXCEPT !.pc = "failed"]
           ELSE [gold_flow EXCEPT
                    !.pc = next,
                    ![table] = returned.rows,
                    !.to_write = <<[df |-> returned.rows, path |-> path]>>]
    /\ UNCHANGED <<GoldFrame, gold>>

\* write_parquet_to_gold(df, object_path): one put_object.  The flow
\* holds no lock on the bucket between two of them.
GoldPutObject ==
    /\ phase = "completed"
    /\ gold_flow.to_write # <<>>
    /\ gold' = write_parquet_to_gold(gold, Head(gold_flow.to_write).path,
                                     Head(gold_flow.to_write).df)
    /\ gold_flow' = [gold_flow EXCEPT !.to_write = Tail(@)]
    /\ UNCHANGED <<GoldFrame, fact>>

\* gold_aggregation_flow from the enrichment to the aggregation by
\* country.  The dimensions and the fact table are built from the enriched
\* tables; the three dimensions are built before the first of them is
\* written, and so are the four aggregations by time.
GoldEnrichToCountry ==
    \/ /\ gold_flow.pc = "ml_clients"
       /\ GoldEnrich("clients_df",
                     enrich_with_ml(gold_flow.clients_df, gold_flow.date_cols, Now),
                     "ml/clients_enriched_ml.parquet", "ml_achats")
       /\ UNCHANGED fact
    \/ /\ gold_flow.pc = "ml_achats"
       /\ GoldEnrich("achats_df",
                     enrich_with_ml(gold_flow.achats_df, gold_flow.date_cols, Now),
                     "ml/achats_enriched_ml.parquet", "dimensions")
       /\ UNCHANGED fact
    \/ /\ gold_flow.pc = "dimensions"
       /\ GoldStretch([status |-> "ok",
                       dim_clients |-> create_dim_clients(gold_flow.clients_df).rows,
                       dim_produits |-> create_dim_produits(gold_flow.achats_df).rows,
                       dim_temps |-> create_dim_temps(gold_flow.achats_df).rows],
                      << <<"dim_clients", "dimensions/dim_clients.parquet">>,
                         <<"dim_produits", "dimensions/dim_produits.parquet">>,
                         <<"dim_temps", "dimensions/dim_temps.parquet">> >>,
                      "fact")
       /\ UNCHANGED fact
    \/ /\ gold_flow.pc = "fact"
       /\ fact' = create_fact_achats(gold_flow.achats_df, gold_flow.clients_df)
       /\ GoldStretch([status |-> "ok", fact_achats |-> fact'],
                      << <<"fact_achats", "facts/fact_achats.parquet">> >>, "temporal")
    \/ /\ gold_flow.pc = "temporal"
       /\ GoldStretch([status |-> "ok",
                       fact_ca_jour |-> aggregate_by_day(fact).rows,
                       fact_ca_semaine |-> aggregate_by_week(fact).rows,
                       fact_ca_mois |-> aggregate_by_month(fact).rows,
                       fact_ca_heure |-> aggregate_by_hour(fact).rows],
                      << <<"fact_ca_jour", "facts/fact_ca_jour.parquet">>,
                         <<"fact_ca_semaine", "facts/fact_ca_semaine.parquet">>,
                         <<"fact_ca_mois", "facts/fact_ca_mois.parquet">>,
                         <<"fact_ca_heure", "facts/fact_ca_heure.parquet">> >>,
                      "country")
       /\ UNCHANGED fact
    \/ /\ gold_flow.pc = "country"
       /\ GoldStretch(aggregate_by_country(fact),
                      << <<"rows", "facts/fact_ca_pays.parquet">> >>, "rfm")
       /\ UNCHANGED fact

\* calculate_rfm_segmentation(fact_achats) and calculate_clv_metrics, each
\* followed by the writes of its two tables.
GoldRfmClv ==
    /\ \/ /\ gold_flow.pc = "rfm"
          /\ GoldStretch(calculate_rfm_segmentation(fact, Now),
                         << <<"rows", "dimensions/dim_rfm.parquet">>,
                            <<"rfm_summary", "kpis/kpi_rfm.parquet">> >>,
                         "clv")
       \/ /\ gold_flow.pc = "clv"
          /\ GoldStretch(calculate_clv_metrics(fact, gold_flow.clients_df),
                         << <<"clv", "kpis/kpi_clv_detail.parquet">>,
                            <<"clv_by_country", "kpis/kpi_clv_pays.parquet">> >>,
                         "retention")
    /\ UNCHANGED fact

\* calculate_retention_metrics(fact_achats, clients_df) up to
\* calculate_concentration_metrics, each followed by the writes of its
\* tables.
GoldRetentionToConcentration ==
    /\ \/ /\ gold_flow.pc = "retention"
          /\ GoldStretch(calculate_retention_metrics(fact, Now),
                 << <<"retention_detail", "kpis/kpi_retention_detail.parquet">>,
                    <<"retention_summary", "kpis/kpi_retention_summary.parquet">>,
                    <<"global_metrics", "kpis/kpi_retention_global.parquet">> >>,
                 "products")
       \/ /\ gold_flow.pc = "products"
          /\ GoldStretch(calculate_product_metrics(fact),
                 << <<"product_metrics", "kpis/kpi_produits.parquet">>,
                    <<"top_products_ca", "kpis/kpi_top_produits_ca.parquet">>,
                    <<"top_products_volume", "kpis/kpi_top_produits_volume.parquet">>,
                    <<"basket_diversity", "kpis/kpi_diversite_panier.parquet">>,
                    <<"diversity_summary", "kpis/kpi_diversite_summary.parquet">> >>,
                 "cohorts")
       \/ /\ gold_flow.pc = "cohorts"
          /\ GoldStretch(calculate_cohort_analysis(fact),
                 << <<"cohort_ca", "analytics/analytics_cohortes_ca.parquet">>,
                    <<"cohort_total", "analytics/analytics_cohortes_total.parquet">>,
                    <<"cohort_retention", "analytics/analytics_cohortes_retention.parquet">> >>,
                 "seasonality")
       \/ /\ gold_flow.pc = "seasonality"
          /\ GoldStretch(calculate_seasonality(fact),
                 << <<"by_day_of_week", "analytics/analytics_saisonnalite_jour.parquet">>,
                    <<"by_hour", "analytics/analytics_saisonnalite_heure.parquet">>,
                    <<"by_month", "analytics/analytics_saisonnalite_mois.parquet">>,
                    <<"weekend_vs_week", "analytics/analytics_saisonnalite_weekend.parquet">> >>,
                 "distributions")
       \/ /\ gold_flow.pc = "distributions"
          /\ GoldStretch(calculate_statistical_distributions(fact),
                 << <<"distributions_summary",
                      "analytics/analytics_distributions_summary.parquet">>,
                    <<"client_stats", "analytics/analytics_distributions_clients.parquet">>,
                    <<"produit_stats", "analytics/analytics_distributions_produits.parquet">> >>,
                 "concentration")
       \/ /\ gold_flow.pc = "concentration"
          /\ GoldStretch(calculate_concentration_metrics(fact),
                 << <<"concentration_summary",
                      "analytics/analytics_concentration_summary.parquet">>,
                    <<"client_concentration",
                      "analytics/analytics_concentration_clients.parquet">>,
                    <<"country_concentration",
                      "analytics/analytics_concentration_pays.parquet">>,
                    <<"product_concentration",
                      "analytics/analytics_concentration_produits.parquet">> >>,
                 "kpis")
    /\ UNCHANGED fact

\* calculate_global_kpis(fact_achats, clients_df) and
\* calculate_growth_metrics, each followed by the writes of its tables.
GoldKpisGrowth ==
    /\ \/ /\ gold_flow.pc = "kpis"
          /\ GoldStretch(calculate_global_kpis(fact, gold_flow.clients_df, Now),
                         << <<"kpis", "kpis/kpi_globaux.parquet">> >>, "growth")
       \/ /\ gold_flow.pc = "growth"
          /\ GoldStretch(calculate_growth_metrics(fact),
                 << <<"monthly_growth", "kpis/kpi_croissance_mensuelle.parquet">>,
                    <<"growth_summary", "kpis/kpi_croissance_summary.parquet">> >>,
                 "done")
    /\ UNCHANGED fact

\* The run is over: a flow raised, or the Gold flow returned.  The output
\* tables of the run are what the two buckets hold.
RunStatus ==
    IF phase = "failed" THEN "silver_failed"
    ELSE IF gold_flow.pc = "failed" THEN "gold_failed"
    ELSE "ok"

EndRun ==
    /\ \/ phase = "failed"
       \/ /\ phase = "completed"
          /\ gold_flow.pc \in {"done", "failed"}
          /\ gold_flow.to_write = <<>>
    /\ run_outputs' = Append(run_outputs,
                             [status |-> RunStatus, silver |-> silver, gold |-> gold])
    /\ gold_flow' = GoldFlowAt("idle", gold_flow.date_cols, <<>>, <<>>)
    /\ phase' = "runs"
    /\ UNCHANGED <<cleanVars, silverVars, goldVars, factVars, clock, gold, gold_runs,
                   mongo, metadata_refresh, sync, mongo_before, api_response, gold_before>>

NextRuns ==
    \/ Tick
    \/ StartRun
    \/ NextSilver
    \/ GoldReadSilver
    \/ GoldEnrichToCountry
    \/ GoldPutObject
    \/ GoldRfmClv
    \/ GoldRetentionToConcentration
    \/ GoldKpisGrowth
    \/ EndRun

SpecRuns == InitRuns /\ [][NextRuns]_vars

\* C11: the runs of the pipeline on the same input tables with the same
\* reference time give the same output tables, at whatever wall-clock
\* time each run executes.
C11_RunsAgree ==
    \A i, j \in 1..Len(run_outputs) : run_outputs[i] = run_outputs[j]

====
